---- MODULE Spec2Model ----
(***************************************************************************)
(* Model of the gfx-hal frame driver of Avenir (src/src/hal_state.rs) and  *)
(* of the surface negotiation helpers (src/src/gfx_utils.rs).              *)
(*                                                                         *)
(* Spec     : one GenericHalState after a successful init, driven by any   *)
(*            sequence of set_buffer_bundle / draw_triangle_frame calls,   *)
(*            interleaved with GPU completions.  draw_triangle_frame is    *)
(*            split into its steps, one action per step.                   *)
(* SpecNeg  : the pure selection functions of GfxUtils applied to inputs   *)
(*            drawn from bounded sets.                                     *)
(* SpecPipe : one PipelineBuilder (src/src/pipeline.rs) from new to build,  *)
(*            with any sequence of with / with_vertex / with_fragment /    *)
(*            with_error calls and any failure of the compiler or device.  *)
(***************************************************************************)
EXTENDS Integers, Sequences, FiniteSets, TLC

VARIABLES
    \* ---- fields of GenericHalState (hal_state.rs:62-82) ----
    current_frame,                \* usize
    frames_in_flight,             \* u32
    in_flight_fences,             \* Vec<B::Fence>: TRUE = signaled
    render_finished_semaphores,   \* Vec<B::Semaphore>: TRUE = carries a signal
    image_available_semaphores,   \* Vec<B::Semaphore>: TRUE = carries a signal
    command_buffers,              \* Vec<CommandBuffer>: "initial" | "recording" | "executable"
    framebuffers,                 \* Vec<B::Framebuffer>: the image view each one wraps
    image_views,                  \* Vec<B::ImageView>: the swapchain image each one views
    vertices,                     \* Option<BufferBundle>: 0 = None, n > 0 = Some(bundle n)
    render_area,                  \* Rect: the rect of the extent init negotiated
    pipeline,                     \* ManuallyDrop<Pipeline>: the init that built it
    \* ---- device side ----
    swapchain_images,             \* number of images of the swapchain (the backbuffer)
    acquired,                     \* images acquired by the application and not yet presented
    pending,                      \* submissions queued on the graphics queue, not yet completed
    bundles,                      \* number of BufferBundles allocated so far
    \* ---- the running call of draw_triangle_frame ----
    pc,                           \* position of the CPU thread
    image_available,              \* local: the borrowed image-available semaphore
    render_finished,              \* local: the borrowed render-finished semaphore
    i_usize,                      \* local: the acquired image index
    flight_fence,                 \* local: index of the borrowed fence
    \* ---- observation of the calls ----
    calls,                        \* number of draw_triangle_frame calls begun
    steps,                        \* steps attempted by the running / last call, in order
    failed,                       \* the step of the running / last call that failed, or "none"
    log,                          \* the handles each step of the running / last call used
    races,                        \* pending command buffers reading the memory of the last upload
    rerecorded,                   \* TRUE iff the last buffer.begin hit a pending command buffer
    result,                       \* what the last finished call returned
    \* ---- SpecNeg: one call of a GfxUtils selection function ----
    neg_fn, neg_pref, neg_adv, neg_caps, neg_mode, neg_out,
    neg_arg,                      \* the arguments of the other GfxUtils / layout functions
    \* ---- SpecPipe: one PipelineBuilder (pipeline.rs:86-104) and its device ----
    builder,                      \* the fields of the PipelineBuilder
    builder_state,                \* "owned" | "consumed" (by build) | "dropped" (by a failed call)
    shader_modules,               \* shader modules created on the device and not destroyed
    device_objects,               \* objects build created on the device and did not destroy
    modules_created,              \* number of shader modules created so far
    supplied,                     \* the calls that returned the builder
    failing,                      \* the device call that failed in build, or "none"
    compile_failed,               \* TRUE iff a shader failed to compile
    pipe_out,                     \* what the last call that consumed the builder returned
    init_result,                  \* what init returns after the pipeline section
    \* ---- SpecRendy: the rendy pipeline of main.rs / mesh.rs and its event loop ----
    pipeline_kind,                \* "voxel" (main.rs) | "mesh" (mesh.rs)
    frames,                       \* ctx.frames_in_flight
    self_align,                   \* the field align of the pipeline
    buffer_size,                  \* size of the field buffer of the pipeline
    sets,                         \* the field sets: the buffer range bound to each set
    objects,                      \* scene.objects
    frame,                        \* the local frame of run
    runs,                         \* number of graph.run calls
    graph,                        \* the local graph of run: "Some" | "None"
    control_flow,                 \* the ControlFlow winit holds after the closure returned
    prepared,                     \* the uploads of the last prepare
    drawn,                        \* the buffer ranges the last draw binds and reads
    disposed,                     \* number of graph.dispose calls
    event,                        \* the event the closure handled last
    \* ---- SpecLoop: the render loop of examples/triangle/main.rs ----
    loop_state,                   \* "running" | "exited" (break) | "aborted" (panic!)
    generation,                   \* number of HalStates constructed
    released                      \* fields dropped by the last drop of a HalState, in order

hal_vars == <<current_frame, frames_in_flight, in_flight_fences,
              render_finished_semaphores, image_available_semaphores,
              command_buffers, framebuffers, image_views, vertices,
              render_area, pipeline,
              swapchain_images, acquired, pending, bundles,
              pc, image_available, render_finished, i_usize, flight_fence,
              calls, steps, failed, log, races, rerecorded, result>>

neg_in == <<neg_fn, neg_pref, neg_adv, neg_caps, neg_mode, neg_arg>>

neg_vars == <<neg_in, neg_out>>

pipe_vars == <<builder, builder_state, shader_modules, device_objects, modules_created,
               supplied, failing, compile_failed, pipe_out, init_result>>

rendy_vars == <<pipeline_kind, frames, self_align, buffer_size, sets, objects,
                frame, runs, graph, control_flow, prepared, drawn, disposed, event>>

loop_vars == <<loop_state, generation, released>>

vars == <<hal_vars, neg_vars, pipe_vars, rendy_vars, loop_vars>>

(***************************************************************************)
(* Bounds of the model.                                                    *)
(***************************************************************************)
MaxFrames  == 2     \* frames_in_flight ranges over 1..MaxFrames
MaxImages  == 2     \* swapchain image count ranges over 1..MaxImages
MaxCalls   == 4     \* draw_triangle_frame calls explored
MaxBundles == 2     \* BufferBundles allocated by set_buffer_bundle
MaxPrefLen == 3     \* length of the preference list handed to get_present_mode
MaxCap     == 5     \* largest image_count capability bound explored
MaxFormats == 2     \* length of the format list a surface advertises
MaxExtent  == 2     \* small extents explored besides the window of the example
MaxAdapters == 2    \* adapters enumerated by the instance
MaxQueueFamilies == 1   \* queue families of one adapter
MaxAlign   == 16    \* min_uniform_buffer_offset_alignment ranges over 1..MaxAlign
MaxIndex   == 3     \* frame index handed to the offset functions
MaxExtraLights == 1 \* scene.lights.len() ranges over 0..MAX_LIGHTS + MaxExtraLights

None == -1

\* 0-based indexing of a Vec modelled as a sequence
At(v, i) == v[i + 1]

PutAtEnd(v, i, x) == Append(v, x)

Put(v, i, x) == [v EXCEPT ![i + 1] = x]

InBounds(v, i) == i >= 0 /\ i < Len(v)

Vec(n, x) == [k \in 1..n |-> x]


(***************************************************************************)
(* GenericHalState::init  (hal_state.rs:116-318), the successful path.     *)
(***************************************************************************)

\* (0..frames_in_flight).map(|_| device.create_fence(true)).collect()
CreateFences(n) == Vec(n, TRUE)

\* (0..frames_in_flight).map(|_| device.create_semaphore()).collect()
CreateSemaphores(n) == Vec(n, FALSE)

\* backbuffer.into_iter().map(|image| device.create_image_view(&image, ..)).collect()
CreateImageViews(backbuffer) == [k \in 1..backbuffer |-> k - 1]

\* image_views.iter().map(|image_view| device.create_framebuffer(.., vec![image_view], ..)).collect()
CreateFramebuffers(views) == [k \in 1..Len(views) |-> views[k]]

\* framebuffers.iter().map(|_| command_pool.acquire_command_buffer()).collect()
AcquireCommandBuffersPerFrame(fbs) == [k \in 1..frames_in_flight |-> "initial"]

AcquireCommandBuffers(fbs) == [k \in 1..Len(fbs) |-> "initial"]

\* a semaphore is named by the Vec that holds it and its index there
Sem(vec, i) == <<vec, i>>

NoSem == Sem("none", None)

\* the Vec of semaphores `name` of `v` after semaphore `sem` is set to x
WithSem(v, name, sem, x) == IF sem[1] = name THEN Put(v, sem[2], x) ELSE v

NoLog == [acq_sem |-> NoSem, acq_img |-> None, wait_fence |-> None,
          reset_fence |-> None, sub_cb |-> None, sub_wait |-> NoSem,
          sub_signal |-> NoSem, sub_fence |-> None,
          pres_img |-> None, pres_wait |-> NoSem]

NoOutcome == [tag |-> "none", val |-> "none"]

NoArg == <<>>

\* no PipelineBuilder exists
PipeIdle ==
    /\ builder = <<>>
    /\ builder_state = "absent"
    /\ shader_modules = {}
    /\ device_objects = {}
    /\ modules_created = 0
    /\ supplied = {}
    /\ failing = "none"
    /\ compile_failed = FALSE
    /\ pipe_out = NoOutcome
    /\ init_result = NoOutcome

\* a range start..end of a buffer, and the range of no upload
Bytes(start, end) == [start |-> start, end |-> end]

NoRange == Bytes(None, None)

NoPrepare == [index |-> None, uniform |-> NoRange, indirect |-> NoRange,
              models |-> NoRange, instance_count |-> None]

NoDraw == [index |-> None, uniform |-> NoRange, models |-> NoRange,
           indirect |-> NoRange]

\* no rendy graph exists
RendyIdle ==
    /\ pipeline_kind = "none"
    /\ frames = 0
    /\ self_align = 0
    /\ buffer_size = 0
    /\ sets = <<>>
    /\ objects = <<>>
    /\ frame = 0
    /\ runs = 0
    /\ graph = "None"
    /\ control_flow = "Poll"
    /\ prepared = NoPrepare
    /\ drawn = NoDraw
    /\ disposed = 0
    /\ event = "none"

\* the HalState made by main before the loop is the one at hand
LoopIdle ==
    /\ loop_state = "running"
    /\ generation = 1
    /\ released = <<>>

NegIdle ==
    /\ neg_fn = "none"
    /\ neg_arg = NoArg
    /\ neg_pref = <<>>
    /\ neg_adv = {}
    /\ neg_caps = <<0, 0>>
    /\ neg_mode = "none"
    /\ neg_out = NoOutcome

HalInit ==
    /\ frames_in_flight \in 1..MaxFrames
    /\ swapchain_images \in 1..MaxImages
    /\ in_flight_fences = CreateFences(frames_in_flight)
    /\ render_finished_semaphores = CreateSemaphores(frames_in_flight)
    /\ image_available_semaphores = CreateSemaphores(frames_in_flight)
    /\ image_views = CreateImageViews(swapchain_images)
    /\ framebuffers = CreateFramebuffers(image_views)
    /\ command_buffers = AcquireCommandBuffers(framebuffers)
    /\ current_frame = 0
    /\ vertices = 0
    /\ render_area = "extent"
    /\ pipeline = 1
    /\ acquired = {}
    /\ pending = {}
    /\ bundles = 0
    /\ pc = "idle"
    /\ image_available = NoSem
    /\ render_finished = NoSem
    /\ i_usize = None
    /\ flight_fence = None
    /\ calls = 0
    /\ steps = <<>>
    /\ failed = "none"
    /\ log = NoLog
    /\ races = {}
    /\ rerecorded = FALSE
    /\ result = "none"

Init == HalInit /\ NegIdle /\ PipeIdle /\ RendyIdle /\ LoopIdle

(***************************************************************************)
(* GenericHalState::set_buffer_bundle  (hal_state.rs:321-330)              *)
(***************************************************************************)
SetBufferBundle ==
    /\ pc = "idle"
    /\ bundles < MaxBundles
    /\ \E ok \in BOOLEAN :
          IF ok
          THEN /\ bundles' = bundles + 1
               /\ vertices' = bundles + 1
          ELSE UNCHANGED <<bundles, vertices>>      \* BufferBundle::new(..)? failed
    /\ UNCHANGED <<current_frame, frames_in_flight, render_area, pipeline, in_flight_fences,
                   render_finished_semaphores, image_available_semaphores,
                   command_buffers, framebuffers, image_views,
                   swapchain_images, acquired, pending,
                   pc, image_available, render_finished, i_usize, flight_fence,
                   calls, steps, failed, log, races, rerecorded, result>>
    /\ UNCHANGED <<neg_vars, pipe_vars, rendy_vars, loop_vars>>

(***************************************************************************)
(* GenericHalState::draw_triangle_frame  (hal_state.rs:334-422)            *)
(***************************************************************************)

\* the `?` operator: go on when the step succeeded, return the error otherwise
PropagateIgnoringErrors(ok, next) == next

Propagate(ok, next) == IF ok THEN next ELSE "idle"

\* what a step leaves behind besides its own effect
Step(name, ok, next) ==
    /\ steps' = Append(steps, name)
    /\ failed' = IF ok THEN failed ELSE name
    /\ result' = IF ok THEN result ELSE "err"
    /\ pc' = Propagate(ok, next)

\* &self.image_available_semaphores[self.current_frame]
ImageAvailableIndex(cf) == cf

\* &self.render_finished_semaphores[self.current_frame]
RenderFinishedIndex(cf) == cf

\* self.current_frame = (self.current_frame + 1) % (self.frames_in_flight as usize)
AdvanceNoWrap(cf) == cf + 1

Advance(cf) == (cf + 1) % frames_in_flight

\* SETUP FOR THIS FRAME (338-342)
Call ==
    /\ pc = "idle"
    /\ calls < MaxCalls
    /\ calls' = calls + 1
    /\ IF InBounds(image_available_semaphores, current_frame)
          /\ InBounds(render_finished_semaphores, current_frame)
       THEN /\ image_available' =
                   Sem("image_available", ImageAvailableIndex(current_frame))
            /\ render_finished' =
                   Sem("render_finished", RenderFinishedIndex(current_frame))
            /\ current_frame' = Advance(current_frame)
            /\ pc' = "acquire"
            /\ result' = "none"
       ELSE /\ pc' = "panicked"
            /\ result' = "panic"
            /\ UNCHANGED <<image_available, render_finished, current_frame>>
    /\ steps' = <<>>
    /\ failed' = "none"
    /\ log' = NoLog
    /\ races' = {}
    /\ rerecorded' = FALSE
    /\ i_usize' = None
    /\ flight_fence' = None
    /\ UNCHANGED <<frames_in_flight, render_area, pipeline, in_flight_fences,
                   render_finished_semaphores, image_available_semaphores,
                   command_buffers, framebuffers, image_views, vertices,
                   swapchain_images, acquired, pending, bundles>>
    /\ UNCHANGED <<neg_vars, pipe_vars, rendy_vars, loop_vars>>

\* swapchain.acquire_image(u64::MAX, Some(image_available), None)? (344-350)
\* The swapchain hands out any image the application does not hold.
Acquire ==
    /\ pc = "acquire"
    /\ \/ \E img \in (0..(swapchain_images - 1)) \ acquired :
             /\ i_usize' = img
             /\ acquired' = acquired \cup {img}
             /\ image_available_semaphores' =
                    WithSem(image_available_semaphores, "image_available",
                            image_available, TRUE)
             /\ log' = [log EXCEPT !.acq_sem = image_available, !.acq_img = img]
             /\ Step("acquire", TRUE, "fence")
       \/ /\ Step("acquire", FALSE, "fence")
          /\ UNCHANGED <<i_usize, acquired, image_available_semaphores>>
          /\ log' = [log EXCEPT !.acq_sem = image_available]
    /\ UNCHANGED <<current_frame, frames_in_flight, render_area, pipeline, in_flight_fences,
                   render_finished_semaphores,
                   command_buffers, framebuffers, image_views, vertices,
                   swapchain_images, pending, bundles,
                   image_available, render_finished, flight_fence,
                   calls, races, rerecorded>>
    /\ UNCHANGED <<neg_vars, pipe_vars, rendy_vars, loop_vars>>

\* let flight_fence = &self.in_flight_fences[i_usize]; (352)
FenceOfSlot(img) == (current_frame + frames_in_flight - 1) % frames_in_flight

FenceIndex(img) == img

BorrowFence ==
    /\ pc = "fence"
    /\ IF InBounds(in_flight_fences, FenceIndex(i_usize))
       THEN /\ flight_fence' = FenceIndex(i_usize)
            /\ pc' = "wait"
            /\ UNCHANGED result
       ELSE /\ pc' = "panicked"
            /\ result' = "panic"
            /\ UNCHANGED flight_fence
    /\ UNCHANGED <<current_frame, frames_in_flight, render_area, pipeline, in_flight_fences,
                   render_finished_semaphores, image_available_semaphores,
                   command_buffers, framebuffers, image_views, vertices,
                   swapchain_images, acquired, pending, bundles,
                   image_available, render_finished, i_usize,
                   calls, steps, failed, log, races, rerecorded>>
    /\ UNCHANGED <<neg_vars, pipe_vars, rendy_vars, loop_vars>>

\* device.wait_for_fence(flight_fence, u64::MAX)? (354-356): returns once the
\* fence is signaled, or with an error
FenceNeverWaited(f) == TRUE

FenceReady(f) == At(in_flight_fences, f)

WaitFence ==
    /\ pc = "wait"
    /\ \/ /\ FenceReady(flight_fence)
          /\ Step("wait", TRUE, "reset")
       \/ Step("wait", FALSE, "reset")
    /\ log' = [log EXCEPT !.wait_fence = flight_fence]
    /\ UNCHANGED <<current_frame, frames_in_flight, render_area, pipeline, in_flight_fences,
                   render_finished_semaphores, image_available_semaphores,
                   command_buffers, framebuffers, image_views, vertices,
                   swapchain_images, acquired, pending, bundles,
                   image_available, render_finished, i_usize, flight_fence,
                   calls, races, rerecorded>>
    /\ UNCHANGED <<neg_vars, pipe_vars, rendy_vars, loop_vars>>

\* device.reset_fence(flight_fence)? (357-359)
ResetFence ==
    /\ pc = "reset"
    /\ \E ok \in BOOLEAN :
          /\ Step("reset", ok, "upload")
          /\ in_flight_fences' =
                IF ok THEN Put(in_flight_fences, flight_fence, FALSE)
                      ELSE in_flight_fences
    /\ log' = [log EXCEPT !.reset_fence = flight_fence]
    /\ UNCHANGED <<current_frame, frames_in_flight, render_area, pipeline,
                   render_finished_semaphores, image_available_semaphores,
                   command_buffers, framebuffers, image_views, vertices,
                   swapchain_images, acquired, pending, bundles,
                   image_available, render_finished, i_usize, flight_fence,
                   calls, races, rerecorded>>
    /\ UNCHANGED <<neg_vars, pipe_vars, rendy_vars, loop_vars>>


\* the command buffers queued on the GPU that read BufferBundle `buf`
ReadersOf(buf) == {s.cb : s \in {q \in pending : q.buf = buf}}

\* WRITE THE TRIANGLE DATA (362-375): the triangle is written through a
\* mapping of vertices.memory, the memory of the one bound BufferBundle
Upload ==
    /\ pc = "upload"
    /\ IF vertices = 0
       THEN /\ Step("upload", FALSE, "record")        \* ok_or("Cannot find buffer bundle")?
            /\ UNCHANGED races
       ELSE \E outcome \in {"ok", "map_failed", "release_failed"} :
               /\ Step("upload", outcome = "ok", "record")
               /\ races' = IF outcome = "map_failed" THEN races
                                                     ELSE ReadersOf(vertices)
    /\ UNCHANGED <<current_frame, frames_in_flight, render_area, pipeline, in_flight_fences,
                   render_finished_semaphores, image_available_semaphores,
                   command_buffers, framebuffers, image_views, vertices,
                   swapchain_images, acquired, pending, bundles,
                   image_available, render_finished, i_usize, flight_fence,
                   calls, log, rerecorded>>
    /\ UNCHANGED <<neg_vars, pipe_vars, rendy_vars, loop_vars>>

\* &mut self.command_buffers[i_usize] (381)
CommandBufferOfSlot(img) == log.acq_sem

CommandBufferIndex(img) == img

\* RECORD COMMANDS (377-401)
Record ==
    /\ pc = "record"
    /\ IF vertices = 0
       THEN /\ Step("record", FALSE, "submit")        \* ok_or("Cannot find buffer bundle.")?
            /\ UNCHANGED <<command_buffers, rerecorded>>
       ELSE IF InBounds(command_buffers, CommandBufferIndex(i_usize))
               /\ InBounds(framebuffers, i_usize)
            THEN /\ Step("record", TRUE, "submit")
                 /\ rerecorded' =
                       (\E s \in pending : s.cb = CommandBufferIndex(i_usize))
                 /\ command_buffers' =
                       Put(command_buffers, CommandBufferIndex(i_usize), "executable")
            ELSE /\ pc' = "panicked"
                 /\ result' = "panic"
                 /\ UNCHANGED <<steps, failed, command_buffers, rerecorded>>
    /\ UNCHANGED <<current_frame, frames_in_flight, render_area, pipeline, in_flight_fences,
                   render_finished_semaphores, image_available_semaphores,
                   framebuffers, image_views, vertices,
                   swapchain_images, acquired, pending, bundles,
                   image_available, render_finished, i_usize, flight_fence,
                   calls, log, races>>
    /\ UNCHANGED <<neg_vars, pipe_vars, rendy_vars, loop_vars>>

\* Submission { command_buffers, wait_semaphores, signal_semaphores } (404-414)
SubmissionWaitingOnRenderFinished ==
    [frame |-> calls, cb |-> CommandBufferIndex(i_usize), wait |-> render_finished,
     signal |-> render_finished, fence |-> flight_fence,
     buf |-> vertices, presented |-> FALSE]

Submission ==
    [frame |-> calls, cb |-> CommandBufferIndex(i_usize), wait |-> image_available,
     signal |-> render_finished, fence |-> flight_fence,
     buf |-> vertices, presented |-> FALSE]

\* the_command_queue.submit(submission, Some(flight_fence)) (415-417)
Submit ==
    /\ pc = "submit"
    /\ pending' = pending \cup {Submission}
    /\ log' = [log EXCEPT !.sub_cb = Submission.cb, !.sub_wait = Submission.wait,
                          !.sub_signal = Submission.signal,
                          !.sub_fence = Submission.fence]
    /\ Step("submit", TRUE, "present")
    /\ UNCHANGED <<current_frame, frames_in_flight, render_area, pipeline, in_flight_fences,
                   render_finished_semaphores, image_available_semaphores,
                   command_buffers, framebuffers, image_views, vertices,
                   swapchain_images, acquired, bundles,
                   image_available, render_finished, i_usize, flight_fence,
                   calls, races, rerecorded>>
    /\ UNCHANGED <<neg_vars, pipe_vars, rendy_vars, loop_vars>>

\* swapchain.present(the_command_queue, i_u32, present_wait_semaphores) (418-420)
Present ==
    /\ pc = "present"
    /\ \E outcome \in {"ok", "suboptimal", "err"} :
          /\ steps' = Append(steps, "present")
          /\ failed' = IF outcome = "err" THEN "present" ELSE failed
          /\ result' = outcome
          /\ pc' = "idle"
          /\ IF outcome = "err"
             THEN UNCHANGED <<acquired, pending, render_finished_semaphores>>
             ELSE /\ acquired' = acquired \ {i_usize}
                  /\ IF \E s \in pending : s.frame = calls
                     THEN \* the presentation waits for the rendering of this frame
                          /\ pending' = {IF s.frame = calls
                                         THEN [s EXCEPT !.presented = TRUE]
                                         ELSE s : s \in pending}
                          /\ UNCHANGED render_finished_semaphores
                     ELSE \* the rendering is over: the wait consumes the signal
                          /\ render_finished_semaphores' =
                                WithSem(render_finished_semaphores, "render_finished",
                                        render_finished, FALSE)
                          /\ UNCHANGED pending
    /\ log' = [log EXCEPT !.pres_img = i_usize, !.pres_wait = render_finished]
    /\ UNCHANGED <<current_frame, frames_in_flight, render_area, pipeline, in_flight_fences,
                   image_available_semaphores,
                   command_buffers, framebuffers, image_views, vertices,
                   swapchain_images, bundles,
                   image_available, render_finished, i_usize, flight_fence,
                   calls, races, rerecorded>>
    /\ UNCHANGED <<neg_vars, pipe_vars, rendy_vars, loop_vars>>

(***************************************************************************)
(* The GPU finishes one queued submission: its wait on its wait semaphore   *)
(* is over, its fence is signaled, and so is its signal semaphore unless   *)
(* the presentation of the frame already waits for it.  Submissions finish *)
(* in any order.                                                           *)
(***************************************************************************)
GpuComplete ==
    /\ \E s \in pending :
          /\ pending' = pending \ {s}
          /\ in_flight_fences' = Put(in_flight_fences, s.fence, TRUE)
          /\ LET left == IF s.presented THEN NoSem ELSE s.signal
             IN  /\ image_available_semaphores' =
                       WithSem(WithSem(image_available_semaphores,
                                       "image_available", s.wait, FALSE),
                               "image_available", left, TRUE)
                 /\ render_finished_semaphores' =
                       WithSem(WithSem(render_finished_semaphores,
                                       "render_finished", s.wait, FALSE),
                               "render_finished", left, TRUE)
    /\ UNCHANGED <<current_frame, frames_in_flight, render_area, pipeline,
                   command_buffers, framebuffers, image_views, vertices,
                   swapchain_images, acquired, bundles,
                   pc, image_available, render_finished, i_usize, flight_fence,
                   calls, steps, failed, log, races, rerecorded, result>>
    /\ UNCHANGED <<neg_vars, pipe_vars, rendy_vars, loop_vars>>

Next ==
    \/ SetBufferBundle
    \/ Call
    \/ Acquire
    \/ BorrowFence
    \/ WaitFence
    \/ ResetFence
    \/ Upload
    \/ Record
    \/ Submit
    \/ Present
    \/ GpuComplete

Spec == Init /\ [][Next]_vars

(***************************************************************************)
(* Progress.  The steps of a call that do not wait for the device return   *)
(* with some outcome.  acquire_image and wait_for_fence are called with    *)
(* the timeout core::u64::MAX (347, 355): they return once the image or    *)
(* the signal they wait for is there, and an error return is possible but  *)
(* never forced.  The GPU finishes every submission.  Whether the caller   *)
(* calls again is up to the caller.                                        *)
(***************************************************************************)
NonBlockingSteps == BorrowFence \/ ResetFence \/ Upload \/ Record \/ Submit \/ Present

AcquireReturnsImage == Acquire /\ i_usize' # None

WaitFenceSignaled == WaitFence /\ failed' = "none"

Fairness ==
    /\ WF_vars(NonBlockingSteps)
    /\ WF_vars(AcquireReturnsImage)
    /\ WF_vars(WaitFenceSignaled)
    /\ WF_vars(GpuComplete)

SpecFair == Init /\ [][Next]_vars /\ Fairness


(***************************************************************************)
(* GfxUtils: the selection functions  (gfx_utils.rs:115-139, 179-190)      *)
(***************************************************************************)
PresentModes == {"Mailbox", "Fifo", "Relaxed", "Immediate"}

CompositeAlphas == {"Opaque", "Inherit", "PreMultiplied", "PostMultiplied"}

Ok(x) == [tag |-> "ok", val |-> x]

Err(msg) == [tag |-> "err", val |-> msg]

\* Iterator::find: the first element of the sequence that satisfies the
\* predicate "is contained in `set`", or None
RECURSIVE Find(_, _)
Find(seq, set) ==
    IF seq = <<>> THEN [some |-> FALSE, val |-> "none"]
    ELSE IF Head(seq) \in set THEN [some |-> TRUE, val |-> Head(seq)]
    ELSE Find(Tail(seq), set)

\* Option::ok_or(msg)
OkOr(opt, msg) == IF opt.some THEN Ok(opt.val) ELSE Err(msg)

RECURSIVE Reverse(_)
Reverse(seq) == IF seq = <<>> THEN <<>> ELSE Append(Reverse(Tail(seq)), Head(seq))

get_present_mode_last(present_modes, preferred_modes) ==
    OkOr(Find(Reverse(preferred_modes), present_modes), "No PresentMode values specified!")

\* preferred_modes.iter().cloned().find(|pm| present_modes.contains(pm)).ok_or(..)
get_present_mode(present_modes, preferred_modes) ==
    OkOr(Find(preferred_modes, present_modes), "No PresentMode values specified!")

\* preferred_modes.iter().cloned().find(|ca| composite_alphas.contains(ca)).ok_or(..)
get_composite_alpha(composite_alphas, preferred_modes) ==
    OkOr(Find(preferred_modes, composite_alphas), "No CompositeAlpha values specified!")

Min(a, b) == IF a <= b THEN a ELSE b

Max(a, b) == IF a >= b THEN a ELSE b

\* (end - 1).min(x) on u32: at end = 0 the subtraction wraps to u32::MAX
\* (it panics in a build with overflow checks), and u32::MAX.min(x) = x
EndMinusOneMin(end, x) == IF end = 0 THEN x ELSE Min(end - 1, x)

get_image_count_same_for_all(image_count, present_mode) ==
    EndMinusOneMin(image_count[2], Max(image_count[1], 2))

\* caps.image_count is the range start..end; image_count = <<start, end>>
get_image_count(image_count, present_mode) ==
    IF present_mode = "Mailbox"
    THEN EndMinusOneMin(image_count[2], Max(image_count[1], 3))
    ELSE EndMinusOneMin(image_count[2], Max(image_count[1], 2))

(***************************************************************************)
(* GfxUtils::get_format  (gfx_utils.rs:141-157)                            *)
(***************************************************************************)
Formats == {"Rgba8Srgb", "Bgra8Srgb", "Rgba8Unorm", "Bgra8Unorm"}

\* Format::base_format(): the surface type and the channel type
base_format(format) ==
    IF format = "Rgba8Srgb" THEN <<"R8_G8_B8_A8", "Srgb">>
    ELSE IF format = "Bgra8Srgb" THEN <<"B8_G8_R8_A8", "Srgb">>
    ELSE IF format = "Rgba8Unorm" THEN <<"R8_G8_B8_A8", "Unorm">>
    ELSE <<"B8_G8_R8_A8", "Unorm">>

Some(x) == [some |-> TRUE, val |-> x]

Nothing == [some |-> FALSE, val |-> <<>>]

\* formats.iter().find(|format| format.base_format().1 == ChannelType::Srgb)
RECURSIVE FindSrgb(_)
FindSrgb(formats) ==
    IF formats = <<>> THEN Nothing
    ELSE IF base_format(Head(formats))[2] = "Srgb" THEN Some(Head(formats))
    ELSE FindSrgb(Tail(formats))

\* slice::get(i)
Get(v, i) == IF InBounds(v, i) THEN Some(At(v, i)) ELSE Nothing

get_format_first_advertised(available_formats) ==
    IF ~available_formats.some THEN Ok("Rgba8Srgb")
    ELSE OkOr(Get(available_formats.val, 0), "Available format list was empty!")

\* available_formats: Option<Vec<Format>>
get_format(available_formats) ==
    IF ~available_formats.some THEN Ok("Rgba8Srgb")
    ELSE LET srgb_format == FindSrgb(available_formats.val)
         IN  IF srgb_format.some THEN Ok(srgb_format.val)
             ELSE OkOr(Get(available_formats.val, 0), "Available format list was empty!")

(***************************************************************************)
(* GfxUtils::get_extent  (gfx_utils.rs:159-177)                            *)
(***************************************************************************)
WindowWidth == 800

WindowHeight == 600

\* LogicalSize::to_physical(dpi_factor): the size times the factor.  Sizes
\* and factors are f64; the factor is given in halves and so is the result.
to_physical(logical, hidpi) == <<logical[1] * hidpi, logical[2] * hidpi>>

\* `as u32` of a non-negative f64 given in halves: the fraction is dropped
as_u32(halves) == halves \div 2

get_extent_of_window(caps_end, window, hidpi) ==
    IF ~window.some THEN Err("Window doesn't exist!")
    ELSE LET window_client_area == to_physical(window.val, hidpi)
         IN  Ok(<<as_u32(window_client_area[1]), as_u32(window_client_area[2])>>)

\* caps_end = caps.extents.end, window = window.get_inner_size(),
\* hidpi = window.get_hidpi_factor()
get_extent(caps_end, window, hidpi) ==
    IF ~window.some THEN Err("Window doesn't exist!")
    ELSE LET window_client_area == to_physical(window.val, hidpi)
         IN  Ok(<<Min(caps_end[1], as_u32(window_client_area[1])),
                  Min(caps_end[2], as_u32(window_client_area[2]))>>)

(***************************************************************************)
(* GfxUtils::pick_adapter, get_queue_family, get_image_usage               *)
(* (gfx_utils.rs:31-55, 192-202) and the order of GenericHalState::init    *)
(***************************************************************************)
\* qf.supports_graphics() && surface.supports_queue_family(qf)
GraphicsOnly(qf) == qf.graphics

Usable(qf) == qf.graphics /\ qf.supported

\* Iterator::position of the first queue family that is usable
RECURSIVE FirstUsable(_, _)
FirstUsable(queue_families, i) ==
    IF i >= Len(queue_families) THEN Nothing
    ELSE IF Usable(At(queue_families, i)) THEN Some(i)
    ELSE FirstUsable(queue_families, i + 1)

\* a.queue_families.iter().any(..)
HasUsable(adapter) == FirstUsable(adapter, 0).some

\* instance.enumerate_adapters().into_iter().find(..)
RECURSIVE FirstAdapter(_, _)
FirstAdapter(adapters, i) ==
    IF i >= Len(adapters) THEN Nothing
    ELSE IF HasUsable(At(adapters, i)) THEN Some(i)
    ELSE FirstAdapter(adapters, i + 1)

pick_adapter(adapters) ==
    OkOr(FirstAdapter(adapters, 0), "Couldn't find a graphical Adapter!")

get_queue_family(adapter) ==
    OkOr(FirstUsable(adapter, 0), "Couldn't find a QueueFamily with graphics!")

\* caps.usage.contains(Usage::COLOR_ATTACHMENT)
get_image_usage(usage) ==
    IF "COLOR_ATTACHMENT" \in usage THEN Ok("COLOR_ATTACHMENT")
    ELSE Err("The Surface isn't capable of supporting color!")

\* init: pick_adapter(..)?, get_device(..)? (which starts with
\* get_queue_family(..)?), then the other fallible calls, which succeed iff
\* rest_ok.  No call of init reads the usage flags of the surface.
init(adapters, usage, rest_ok) ==
    LET adapter == pick_adapter(adapters)
    IN  IF adapter.tag = "err" THEN adapter
        ELSE LET queue_family == get_queue_family(At(adapters, adapter.val))
             IN  IF queue_family.tag = "err" THEN queue_family
                 ELSE IF ~rest_ok THEN Err("a later call of init failed")
                 ELSE Ok([adapter |-> adapter.val, queue_family |-> queue_family.val])

(***************************************************************************)
(* Frame buffer layout  (main.rs:185-211)                                  *)
(***************************************************************************)
MAX_LIGHTS == 32

MAX_OBJECTS == 1

SizeOfLight == 32               \* repr(C, align(16)): 12 + 4 + 4 bytes, padded

SizeOfModel == 64               \* rendy::mesh::Model, a 4x4 matrix of f32

\* size_of::<UniformArgs>(): two 4x4 matrices, lights_count, pad, lights
UNIFORM_SIZE == 64 + 64 + 4 + 12 + SizeOfLight * MAX_LIGHTS

MODELS_SIZE == SizeOfModel * MAX_OBJECTS

INDIRECT_SIZE == 20             \* DrawIndexedCommand: five 32-bit fields

iceil_of_next(value, scale) == (value \div scale + 1) * scale

iceil(value, scale) == ((value - 1) \div scale + 1) * scale

buffer_frame_size(align) == iceil(UNIFORM_SIZE + MODELS_SIZE + INDIRECT_SIZE, align)

uniform_offset(index, align) == buffer_frame_size(align) * index

models_offset(index, align) == uniform_offset(index, align) + UNIFORM_SIZE

indirect_offset(index, align) == models_offset(index, align) + MODELS_SIZE

\* what the functions return for one frame index and for the next one
frame_layout(index, align) ==
    [stride |-> buffer_frame_size(align),
     uniform |-> uniform_offset(index, align),
     models |-> models_offset(index, align),
     indirect |-> indirect_offset(index, align),
     next_uniform |-> uniform_offset(index + 1, align)]

\* the UniformArgs that prepare uploads (main.rs:346-362) for a scene with
\* lights_len lights: a light of the scene is "light", a zeroed entry "zero"
uniform_args(lights_len) ==
    LET count == Min(lights_len, 32)
    IN  [lights_count |-> lights_len,
         lights |-> [k \in 1..MAX_LIGHTS |-> IF k <= count THEN "light" ELSE "zero"]]

(***************************************************************************)
(* The inputs of SpecNeg                                                   *)
(***************************************************************************)
\* the sequences over `set` of length at most n
SeqsUpTo(set, n) == UNION {[1..k -> set] : k \in 0..n}

\* the image-count ranges a surface reports: 1 <= start <= end
ImageCountRanges == {r \in (1..MaxCap) \X (1..MaxCap) : r[1] <= r[2]}

Pending == [tag |-> "pending", val |-> "none"]

OtherFunctions == {"get_format", "get_extent", "pick_adapter", "init", "frame_layout",
                   "uniform_args"}

Extents == ((1..MaxExtent) \cup {WindowWidth, WindowHeight})
              \X ((1..MaxExtent) \cup {WindowWidth, WindowHeight})

QueueFamilies == [graphics : BOOLEAN, supported : BOOLEAN]

AdapterLists == SeqsUpTo(SeqsUpTo(QueueFamilies, MaxQueueFamilies), MaxAdapters)

ArgumentsOf(fn) ==
    IF fn = "get_format"
    THEN {Nothing} \cup {Some(s) : s \in SeqsUpTo(Formats, MaxFormats)}
    ELSE IF fn = "get_extent"
    THEN [caps_end : Extents, window : {Nothing} \cup {Some(e) : e \in Extents},
          hidpi : {2, 3, 4}]
    ELSE IF fn = "pick_adapter"
    THEN [adapters : AdapterLists]
    ELSE IF fn = "init"
    THEN [adapters : AdapterLists, usage : SUBSET {"COLOR_ATTACHMENT"},
          rest_ok : BOOLEAN]
    ELSE IF fn = "uniform_args"
    THEN [lights : 0..(MAX_LIGHTS + MaxExtraLights)]
    ELSE [index : 0..MaxIndex, align : 1..MaxAlign]

\* One GenericHalState that is left alone while the functions are applied
HalQuiet == HalInit /\ frames_in_flight = 1 /\ swapchain_images = 1

NegInit ==
    /\ HalQuiet
    /\ PipeIdle
    /\ RendyIdle
    /\ LoopIdle
    /\ neg_out = Pending
    /\ \/ /\ neg_fn = "get_present_mode"
          /\ neg_pref \in SeqsUpTo(PresentModes, MaxPrefLen)
          /\ neg_adv \in SUBSET PresentModes
          /\ neg_caps = <<0, 0>>
          /\ neg_mode = "none"
          /\ neg_arg = NoArg
       \/ /\ neg_fn = "get_composite_alpha"
          /\ neg_pref \in SeqsUpTo(CompositeAlphas, MaxPrefLen)
          /\ neg_adv \in SUBSET CompositeAlphas
          /\ neg_caps = <<0, 0>>
          /\ neg_mode = "none"
          /\ neg_arg = NoArg
       \/ /\ neg_fn = "get_image_count"
          /\ neg_pref = <<>>
          /\ neg_adv = {}
          /\ neg_caps \in ImageCountRanges
          /\ neg_mode \in PresentModes
          /\ neg_arg = NoArg
       \/ /\ neg_fn \in OtherFunctions
          /\ neg_pref = <<>>
          /\ neg_adv = {}
          /\ neg_caps = <<0, 0>>
          /\ neg_mode = "none"
          /\ neg_arg \in ArgumentsOf(neg_fn)

GetPresentMode ==
    /\ neg_fn = "get_present_mode"
    /\ neg_out = Pending
    /\ neg_out' = get_present_mode(neg_adv, neg_pref)
    /\ UNCHANGED neg_in
    /\ UNCHANGED <<hal_vars, pipe_vars, rendy_vars, loop_vars>>

GetCompositeAlpha ==
    /\ neg_fn = "get_composite_alpha"
    /\ neg_out = Pending
    /\ neg_out' = get_composite_alpha(neg_adv, neg_pref)
    /\ UNCHANGED neg_in
    /\ UNCHANGED <<hal_vars, pipe_vars, rendy_vars, loop_vars>>

GetImageCount ==
    /\ neg_fn = "get_image_count"
    /\ neg_out = Pending
    /\ neg_out' = Ok(get_image_count(neg_caps, neg_mode))
    /\ UNCHANGED neg_in
    /\ UNCHANGED <<hal_vars, pipe_vars, rendy_vars, loop_vars>>

GetFormat ==
    /\ neg_fn = "get_format"
    /\ neg_out = Pending
    /\ neg_out' = get_format(neg_arg)
    /\ UNCHANGED neg_in
    /\ UNCHANGED <<hal_vars, pipe_vars, rendy_vars, loop_vars>>

GetExtent ==
    /\ neg_fn = "get_extent"
    /\ neg_out = Pending
    /\ neg_out' = get_extent(neg_arg.caps_end, neg_arg.window, neg_arg.hidpi)
    /\ UNCHANGED neg_in
    /\ UNCHANGED <<hal_vars, pipe_vars, rendy_vars, loop_vars>>

PickAdapter ==
    /\ neg_fn = "pick_adapter"
    /\ neg_out = Pending
    /\ neg_out' = pick_adapter(neg_arg.adapters)
    /\ UNCHANGED neg_in
    /\ UNCHANGED <<hal_vars, pipe_vars, rendy_vars, loop_vars>>

\* GenericHalState::init up to its result (hal_state.rs:116-318)
HalStateInit ==
    /\ neg_fn = "init"
    /\ neg_out = Pending
    /\ neg_out' = init(neg_arg.adapters, neg_arg.usage, neg_arg.rest_ok)
    /\ UNCHANGED neg_in
    /\ UNCHANGED <<hal_vars, pipe_vars, rendy_vars, loop_vars>>

FrameLayout ==
    /\ neg_fn = "frame_layout"
    /\ neg_out = Pending
    /\ neg_out' = Ok(frame_layout(neg_arg.index, neg_arg.align))
    /\ UNCHANGED neg_in
    /\ UNCHANGED <<hal_vars, pipe_vars, rendy_vars, loop_vars>>

\* the uniform upload of VoxelRenderPipeline::prepare (main.rs:341-364)
UniformArgs ==
    /\ neg_fn = "uniform_args"
    /\ neg_out = Pending
    /\ neg_out' = Ok(uniform_args(neg_arg.lights))
    /\ UNCHANGED neg_in
    /\ UNCHANGED <<hal_vars, pipe_vars, rendy_vars, loop_vars>>

NegNext ==
    \/ GetPresentMode
    \/ GetCompositeAlpha
    \/ GetImageCount
    \/ GetFormat
    \/ GetExtent
    \/ PickAdapter
    \/ HalStateInit
    \/ FrameLayout
    \/ UniformArgs

SpecNeg == NegInit /\ [][NegNext]_vars


(***************************************************************************)
(* PipelineBuilder  (pipeline.rs:31-341, shader_utils.rs:16-58)            *)
(***************************************************************************)
\* Option::None of the optional pieces
Absent == [some |-> FALSE, val |-> "none"]

\* PipelineBuilder::new: no piece, no shader entry, empty flags.  The
\* fields no call ever changes (descriptor_range_desc, immutables_sampler,
\* base_pipeline, extent, render_pass) are left out.
NewBuilder ==
    [pipeline_creation_flags |-> "empty",
     attributes_desc |-> <<>>,
     descriptor_set_layout_binding |-> <<>>,
     shader_entries |-> <<>>,
     vertex_buffers |-> <<>>,
     input_assembler_desc |-> Absent,
     rasterizer |-> Absent,
     depth_stencil_desc |-> Absent,
     blender_desc |-> Absent,
     baked_states |-> Absent]

\* the With<T> calls made in a run: the type T and the value handed over
WithCalls ==
    [piece : {"AttributeDesc"}, data : {"XY", "RGB"}]
    \cup [piece : {"Rasterizer"}, data : {"Fill", "Line"}]
    \cup [piece : {"DescriptorSetLayoutBinding", "VertexBufferDesc",
                   "InputAssemblerDesc", "PipelineCreationFlags",
                   "DepthStencilDesc", "BlendDesc", "BakedStates"},
          data : {"given"}]

\* a shader of a kind the builder has no stage for
OtherKinds == [shader_type : {"Compute"}, source : {"COMPUTE_SOURCE"}]

\* the shaders handed to with_vertex / with_fragment / with_error
ShaderCalls ==
    [shader_type : {"Vertex"}, source : {"VERTEX_SOURCE", "OTHER_SOURCE"}]
    \cup [shader_type : {"Fragment"}, source : {"FRAGMENT_SOURCE"}]

\* what the compiler and the device do in one call: whether the source
\* compiles, whether create_shader_module succeeds, the handle it returns
Environments(next) == [compiles : BOOLEAN, creates : BOOLEAN, handle : {next}]

With_resetting_baked_states(b, call) ==
    IF call.piece = "AttributeDesc"
    THEN [b EXCEPT !.attributes_desc = Append(@, call.data)]
    ELSE IF call.piece = "DescriptorSetLayoutBinding"
    THEN [b EXCEPT !.descriptor_set_layout_binding = Append(@, call.data)]
    ELSE IF call.piece = "VertexBufferDesc"
    THEN [b EXCEPT !.vertex_buffers = Append(@, call.data)]
    ELSE IF call.piece = "InputAssemblerDesc"
    THEN [b EXCEPT !.input_assembler_desc = Some(call.data)]
    ELSE IF call.piece = "PipelineCreationFlags"
    THEN [b EXCEPT !.pipeline_creation_flags = call.data]
    ELSE IF call.piece = "Rasterizer"
    THEN [b EXCEPT !.rasterizer = Some(call.data), !.baked_states = Absent]
    ELSE IF call.piece = "DepthStencilDesc"
    THEN [b EXCEPT !.depth_stencil_desc = Some(call.data)]
    ELSE IF call.piece = "BlendDesc"
    THEN [b EXCEPT !.blender_desc = Some(call.data)]
    ELSE [b EXCEPT !.baked_states = Some(call.data)]

\* impl With<T> for PipelineBuilder (pipeline.rs:244-341)
With(b, call) ==
    IF call.piece = "AttributeDesc"
    THEN [b EXCEPT !.attributes_desc = Append(@, call.data)]
    ELSE IF call.piece = "DescriptorSetLayoutBinding"
    THEN [b EXCEPT !.descriptor_set_layout_binding = Append(@, call.data)]
    ELSE IF call.piece = "VertexBufferDesc"
    THEN [b EXCEPT !.vertex_buffers = Append(@, call.data)]
    ELSE IF call.piece = "InputAssemblerDesc"
    THEN [b EXCEPT !.input_assembler_desc = Some(call.data)]
    ELSE IF call.piece = "PipelineCreationFlags"
    THEN [b EXCEPT !.pipeline_creation_flags = call.data]
    ELSE IF call.piece = "Rasterizer"
    THEN [b EXCEPT !.rasterizer = Some(call.data)]
    ELSE IF call.piece = "DepthStencilDesc"
    THEN [b EXCEPT !.depth_stencil_desc = Some(call.data)]
    ELSE IF call.piece = "BlendDesc"
    THEN [b EXCEPT !.blender_desc = Some(call.data)]
    ELSE [b EXCEPT !.baked_states = Some(call.data)]

\* ShaderUtils::vertex_to_module
vertex_to_module(source, env) ==
    IF ~env.compiles THEN Err("Couldn't compile vertex shader!")
    ELSE IF ~env.creates THEN Err("Couldn't make the vertex module")
    ELSE Ok([handle |-> env.handle, code |-> source])

\* ShaderUtils::fragment_to_module
fragment_to_module(source, env) ==
    IF ~env.compiles THEN Err("Couldn't compile fragment shader!")
    ELSE IF ~env.creates THEN Err("Couldn't make the fragment module")
    ELSE Ok([handle |-> env.handle, code |-> source])

\* ShaderEntry::new
ShaderEntry(shader_module, shader_type) ==
    [shader_module |-> shader_module, shader_type |-> shader_type]

with_vertex_or_placeholder(b, shader_source, env) ==
    LET module == vertex_to_module(shader_source, env)
    IN  IF module.tag = "err"
        THEN Ok([b EXCEPT !.shader_entries =
                    Append(@, ShaderEntry([handle |-> env.handle, code |-> "placeholder"],
                                          "Vertex"))])
        ELSE Ok([b EXCEPT !.shader_entries = Append(@, ShaderEntry(module.val, "Vertex"))])

\* PipelineBuilder::with_vertex: Err means self was dropped
with_vertex(b, shader_source, env) ==
    LET module == vertex_to_module(shader_source, env)
    IN  IF module.tag = "err" THEN module
        ELSE Ok([b EXCEPT !.shader_entries = Append(@, ShaderEntry(module.val, "Vertex"))])

\* PipelineBuilder::with_fragment: Err means self was dropped
with_fragment(b, shader_source, env) ==
    LET module == fragment_to_module(shader_source, env)
    IN  IF module.tag = "err" THEN module
        ELSE Ok([b EXCEPT !.shader_entries = Append(@, ShaderEntry(module.val, "Fragment"))])

\* WithError::with_error(&(ShaderKind, String)): the implementation for
\* PipelineBuilder is not part of the sources; it hands a vertex shader to
\* with_vertex, a fragment shader to with_fragment and refuses other kinds.
with_error(b, item, env) ==
    IF item.shader_type = "Vertex" THEN with_vertex(b, item.source, env)
    ELSE IF item.shader_type = "Fragment" THEN with_fragment(b, item.source, env)
    ELSE Err("Unsupported shader kind")

\* ShaderEntry::compute_entry
compute_entry(elem) == [entry |-> "main", module |-> elem.shader_module.code]

\* Iterator::position(|elem| elem.shader_type == shader_type)
RECURSIVE Position(_, _, _)
Position(from, shader_type, i) ==
    IF i >= Len(from) THEN Nothing
    ELSE IF At(from, i).shader_type = shader_type THEN Some(i)
    ELSE Position(from, shader_type, i + 1)

\* the Option<EntryPoint> of one stage
NoEntry == [some |-> FALSE, val |-> [entry |-> "none", module |-> "none"]]

vec_shader_entry_requiring_fragment(from) ==
    LET vertex_idx == OkOr(Position(from, "Vertex", 0), "No vertex shader found.")
        fragment_idx == OkOr(Position(from, "Fragment", 0), "No fragment shader found.")
    IN  IF vertex_idx.tag = "err" THEN vertex_idx
        ELSE IF fragment_idx.tag = "err" THEN fragment_idx
        ELSE Ok([vertex |-> compute_entry(At(from, vertex_idx.val)),
                 hull |-> NoEntry, domain |-> NoEntry, geometry |-> NoEntry,
                 fragment |-> Some(compute_entry(At(from, fragment_idx.val)))])

vec_shader_entry_into_graphicset(from) ==
    LET vertex_idx == OkOr(Position(from, "Vertex", 0), "No vertex shader found.")
        fragment_idx == Position(from, "Fragment", 0)
    IN  IF vertex_idx.tag = "err" THEN vertex_idx
        ELSE Ok([vertex |-> compute_entry(At(from, vertex_idx.val)),
                 hull |-> NoEntry, domain |-> NoEntry, geometry |-> NoEntry,
                 fragment |-> IF fragment_idx.some
                              THEN Some(compute_entry(At(from, fragment_idx.val)))
                              ELSE NoEntry])

\* the device calls of build, in the order build makes them
DeviceCalls ==
    <<"create_descriptor_set_layout", "create_descriptor_pool", "allocate_set",
      "create_pipeline_layout", "create_graphics_pipeline">>

DeviceFailures == {"none"} \cup {DeviceCalls[k] : k \in 1..Len(DeviceCalls)}

\* one device call of build with its map_err
DeviceCall(failed_call, call, msg) == IF failed_call = call THEN Err(msg) ELSE Ok(call)

DefaultRasterizer(b) == Ok("Fill")

\* self.rasterizer.ok_or("No rasterizer specified.")
RequireRasterizer(b) == OkOr(b.rasterizer, "No rasterizer specified.")

\* the first Err of a sequence of results, in order: a chain of `?`
RECURSIVE FirstErr(_)
FirstErr(results) ==
    IF results = <<>> THEN Ok("all")
    ELSE IF Head(results).tag = "err" THEN Head(results)
    ELSE FirstErr(Tail(results))

\* PipelineBuilder::build, the device call `failed_call` failing (or none)
build(b, failed_call) ==
    LET shaders == vec_shader_entry_into_graphicset(b.shader_entries)
        rasterizer == RequireRasterizer(b)
        input_assembler == OkOr(b.input_assembler_desc, "No input assembler desc specified.")
        blender == OkOr(b.blender_desc, "No blender desc specified.")
        depth_stencil == OkOr(b.depth_stencil_desc, "No depth stencil specified.")
        baked_states == OkOr(b.baked_states, "No states specified.")
        first_err == FirstErr(<<
            DeviceCall(failed_call, "create_descriptor_set_layout",
                       "Couldn't make a DescriptorSetLayout"),
            DeviceCall(failed_call, "create_descriptor_pool",
                       "Couldn't create a descriptor pool!"),
            DeviceCall(failed_call, "allocate_set", "Couldn't make a Descriptor Set!"),
            DeviceCall(failed_call, "create_pipeline_layout",
                       "Couldn't create a pipeline layout"),
            shaders, rasterizer, input_assembler, blender, depth_stencil, baked_states,
            DeviceCall(failed_call, "create_graphics_pipeline",
                       "Couldn't create a graphics pipeline!")>>)
    IN  IF first_err.tag = "err" THEN first_err
        ELSE Ok([descriptor_set_layout |-> b.descriptor_set_layout_binding,
                 shaders |-> shaders.val,
                 rasterizer |-> rasterizer.val,
                 vertex_buffers |-> b.vertex_buffers,
                 attributes |-> b.attributes_desc,
                 input_assembler |-> input_assembler.val,
                 blender |-> blender.val,
                 depth_stencil |-> depth_stencil.val,
                 baked_states |-> baked_states.val,
                 flags |-> b.pipeline_creation_flags])

\* the object a device call of build creates
ObjectOf(call) ==
    CASE call = "create_descriptor_set_layout" -> "descriptor_set_layout"
      [] call = "create_descriptor_pool" -> "descriptor_pool"
      [] call = "allocate_set" -> "descriptor_set"
      [] call = "create_pipeline_layout" -> "pipeline_layout"
      [] call = "create_graphics_pipeline" -> "graphics_pipeline"

\* the objects alive on the device when build returns: build creates the
\* layout, the pool, the set and the pipeline layout first, each `?` after
\* them returns without a destroy call, and the handles have no Drop
created_by_build(b, failed_call) ==
    LET res == build(b, failed_call)
        Succeeded(k) == \A j \in 1..k : DeviceCalls[j] # failed_call
    IN  {ObjectOf(DeviceCalls[k]) :
            k \in {j \in 1..Len(DeviceCalls) :
                      /\ Succeeded(j)
                      /\ DeviceCalls[j] = "create_graphics_pipeline" => res.tag = "ok"}}

\* the handles of the shader modules the entries own
ModulesOf(shader_entries) ==
    {shader_entries[k].shader_module.handle : k \in 1..Len(shader_entries)}

\* the `?` of init on the pipeline section (hal_state.rs:287-290): an error
\* is returned as it is, otherwise init goes on to Ok(Self { .. })
Try(res) == IF res.tag = "err" THEN res ELSE Ok("HalState")

PipeInit ==
    /\ HalQuiet
    /\ NegIdle
    /\ RendyIdle
    /\ LoopIdle
    /\ builder = NewBuilder
    /\ builder_state = "owned"
    /\ shader_modules = {}
    /\ device_objects = {}
    /\ modules_created = 0
    /\ supplied = {}
    /\ failing = "none"
    /\ compile_failed = FALSE
    /\ pipe_out = Pending
    /\ init_result = Pending

\* builder.with(data)
WithPiece ==
    /\ builder_state = "owned"
    /\ \E call \in WithCalls \ supplied :
          /\ builder' = With(builder, call)
          /\ supplied' = supplied \cup {call}
    /\ UNCHANGED <<builder_state, shader_modules, device_objects, modules_created,
                   failing, compile_failed, pipe_out, init_result>>
    /\ UNCHANGED <<hal_vars, neg_vars, rendy_vars, loop_vars>>

\* the effect of one call that takes a shader: res is what the call
\* returned.  A module was created iff the call returned the builder; on
\* Err the builder, moved into the call, is dropped with its entries.  The
\* compiler runs on vertex and fragment shaders only.
ShaderStep(call, env, res) ==
    /\ IF res.tag = "ok"
       THEN /\ builder' = res.val
            /\ shader_modules' = shader_modules \cup ModulesOf(res.val.shader_entries)
            /\ modules_created' = modules_created + 1
            /\ supplied' = supplied \cup {call}
            /\ UNCHANGED <<builder_state, pipe_out, init_result>>
       ELSE /\ builder_state' = "dropped"
            /\ pipe_out' = res
            /\ init_result' = Try(res)
            /\ UNCHANGED <<builder, shader_modules, modules_created, supplied>>
    /\ compile_failed' = (compile_failed
                            \/ (call.shader_type \in {"Vertex", "Fragment"} /\ ~env.compiles))
    /\ UNCHANGED <<failing, device_objects>>
    /\ UNCHANGED <<hal_vars, neg_vars, rendy_vars, loop_vars>>

\* builder.with_vertex(source, "main")
WithVertex ==
    /\ builder_state = "owned"
    /\ \E call \in ShaderCalls \ supplied, env \in Environments(modules_created) :
          /\ call.shader_type = "Vertex"
          /\ ShaderStep(call, env, with_vertex(builder, call.source, env))

\* builder.with_fragment(source, "main")
WithFragment ==
    /\ builder_state = "owned"
    /\ \E call \in ShaderCalls \ supplied, env \in Environments(modules_created) :
          /\ call.shader_type = "Fragment"
          /\ ShaderStep(call, env, with_fragment(builder, call.source, env))

\* pipeline_builder = pipeline_builder.with_error(&item)?  (hal_state.rs:288)
WithError ==
    /\ builder_state = "owned"
    /\ \E call \in (ShaderCalls \cup OtherKinds) \ supplied,
          env \in Environments(modules_created) :
          ShaderStep(call, env, with_error(builder, call, env))

\* let pipeline = pipeline_builder.build()?  (hal_state.rs:290).  The
\* shader modules are destroyed on the path that returns Ok only.
Build ==
    /\ builder_state = "owned"
    /\ \E failed_call \in DeviceFailures :
          LET res == build(builder, failed_call)
          IN  /\ failing' = failed_call
              /\ pipe_out' = res
              /\ init_result' = Try(res)
              /\ shader_modules' = IF res.tag = "ok"
                                   THEN shader_modules \ ModulesOf(builder.shader_entries)
                                   ELSE shader_modules
              /\ device_objects' = created_by_build(builder, failed_call)
    /\ builder_state' = "consumed"
    /\ UNCHANGED <<builder, modules_created, supplied, compile_failed>>
    /\ UNCHANGED <<hal_vars, neg_vars, rendy_vars, loop_vars>>

PipeNext ==
    \/ WithPiece
    \/ WithVertex
    \/ WithFragment
    \/ WithError
    \/ Build

SpecPipe == PipeInit /\ [][PipeNext]_vars

(***************************************************************************)
(* The rendy pipelines: VoxelRenderPipeline (main.rs:216-434) and the mesh *)
(* Pipeline (mesh.rs:74-319).  A rendy graph builds its pipeline once and  *)
(* then calls prepare(index) and draw(index) for every frame it runs, with *)
(* index < frames_in_flight.                                               *)
(***************************************************************************)
PipelineKinds == {"voxel", "mesh"}

SizeOfTransform3 == 64          \* nalgebra::Transform3<f32>, a 4x4 matrix of f32

SizeOfMatrix3 == 36             \* nalgebra::Matrix3<f32>

\* mesh.rs: size_of::<UniformArgs>(), repr(C, align(16)): 36 + 64 + 64 bytes, padded
mesh_UNIFORM_SIZE == 176

MAX_INSTANCE == 1000000

MODEL_SIZE == SizeOfModel * MAX_INSTANCE

mesh_INDIRECT_SIZE == 20        \* DrawIndexedCommand: five 32-bit fields

\* factory.upload_visible_buffer(&mut buffer, offset, data): the bytes written
Written(offset, size) == Bytes(offset, offset + size)

\* VoxelRenderPipelineDesc::build (main.rs:268-330)
voxel_build(n, a) ==
    [buffer |-> buffer_frame_size(a) * n,
     sets |-> [k \in 1..n |-> Bytes(uniform_offset(k - 1, a),
                                    uniform_offset(k - 1, a) + UNIFORM_SIZE)]]

\* PipelineDesc::build (mesh.rs:129-210)
mesh_build(n, a) ==
    [buffer |-> MODEL_SIZE + mesh_UNIFORM_SIZE + mesh_INDIRECT_SIZE,
     sets |-> [k \in 1..n |-> Bytes(k - 1, (k - 1) + mesh_UNIFORM_SIZE)]]

build_pipeline(k, n, a) == IF k = "voxel" THEN voxel_build(n, a) ELSE mesh_build(n, a)

\* VoxelRenderPipeline::prepare (main.rs:332-392)
voxel_prepare(index, a, objs) ==
    [index |-> index,
     uniform |-> Written(uniform_offset(index, a), UNIFORM_SIZE),
     indirect |-> Written(indirect_offset(index, a), INDIRECT_SIZE),
     models |-> IF objs # <<>>
                THEN Written(models_offset(index, a), SizeOfTransform3 * Len(objs))
                ELSE NoRange,
     instance_count |-> Len(objs)]

\* Pipeline::prepare (mesh.rs:219-276); positions holds one matrix
mesh_frame_size == mesh_UNIFORM_SIZE + MODEL_SIZE + mesh_INDIRECT_SIZE

mesh_prepare(index) ==
    [index |-> index,
     uniform |-> Written(mesh_frame_size * index, mesh_UNIFORM_SIZE),
     indirect |-> Written(mesh_frame_size * index + MODEL_SIZE + mesh_UNIFORM_SIZE,
                          mesh_INDIRECT_SIZE),
     models |-> Written(mesh_frame_size * index + mesh_UNIFORM_SIZE, SizeOfMatrix3),
     instance_count |-> 1]

prepare(k, index, a, objs) ==
    IF k = "voxel" THEN voxel_prepare(index, a, objs) ELSE mesh_prepare(index)

\* VoxelRenderPipeline::draw (main.rs:397-430): set index is bound, the
\* instances are read from models_offset and one indirect command from
\* indirect_offset
voxel_draw(index, a, objs, s) ==
    [index |-> index,
     uniform |-> At(s, index),
     models |-> Written(models_offset(index, a), SizeOfTransform3 * Len(objs)),
     indirect |-> Written(indirect_offset(index, a), INDIRECT_SIZE)]

\* Pipeline::draw (mesh.rs:278-314)
mesh_draw(index, s) ==
    [index |-> index,
     uniform |-> At(s, index),
     models |-> Written(mesh_frame_size * index + mesh_UNIFORM_SIZE, SizeOfMatrix3),
     indirect |-> Written(mesh_frame_size * index + mesh_UNIFORM_SIZE + MODEL_SIZE,
                          mesh_INDIRECT_SIZE)]

draw(k, index, a, objs, s) ==
    IF k = "voxel" THEN voxel_draw(index, a, objs, s) ELSE mesh_draw(index, s)

(***************************************************************************)
(* The event loops of run: main.rs:514-563 drives the voxel pipeline and   *)
(* examples/cones.rs:85-154 the mesh pipeline.  The closure is called once *)
(* per event.  winit keeps ControlFlow::Exit once the closure has left it  *)
(* behind and hands the later calls a scratch value; any event may still   *)
(* arrive until LoopDestroyed, the last one.                               *)
(***************************************************************************)

\* if scene.objects.len() < MAX_OBJECTS (546)
HasRoomOrIsFull(objs) == Len(objs) <= MAX_OBJECTS

HasRoom(objs) == Len(objs) < MAX_OBJECTS

\* if *control_flow == ControlFlow::Exit { if let Some(graph) = graph.take()
\* { graph.dispose(..) } .. } (main.rs:556-561, cones.rs:149-153); cf is what
\* the closure assigned to *control_flow
ExitCheckKeepingGraph(cf) ==
    /\ control_flow' = IF control_flow = "Exit" THEN "Exit" ELSE cf
    /\ IF cf = "Exit" /\ graph = "Some"
       THEN /\ UNCHANGED graph
            /\ disposed' = disposed + 1
       ELSE UNCHANGED <<graph, disposed>>

ExitCheck(cf) ==
    /\ control_flow' = IF control_flow = "Exit" THEN "Exit" ELSE cf
    /\ IF cf = "Exit" /\ graph = "Some"
       THEN /\ graph' = "None"
            /\ disposed' = disposed + 1
       ELSE UNCHANGED <<graph, disposed>>

\* if let Some(ref mut graph) = graph { graph.run(..); frame += 1; }
\* (main.rs:541-544, cones.rs:125-128, 140-143)
RunGraph ==
    IF graph = "Some"
    THEN /\ \E index \in 0..(frames - 1) :
               /\ prepared' = prepare(pipeline_kind, index, self_align, objects)
               /\ drawn' = draw(pipeline_kind, index, self_align, objects, sets)
         /\ runs' = runs + 1
    ELSE UNCHANGED <<prepared, drawn, runs>>

\* the graph and its pipeline as graph_builder.build(..) leaves them
\* (main.rs:505-512, cones.rs:79-80)
RendyInit ==
    /\ HalQuiet
    /\ NegIdle
    /\ PipeIdle
    /\ LoopIdle
    /\ pipeline_kind \in PipelineKinds
    /\ frames \in 1..MaxFrames
    /\ self_align \in 1..MaxAlign
    /\ buffer_size = build_pipeline(pipeline_kind, frames, self_align).buffer
    /\ sets = build_pipeline(pipeline_kind, frames, self_align).sets
    /\ objects = <<>>
    /\ frame = 0
    /\ runs = 0
    /\ graph = "Some"
    /\ control_flow = "Poll"
    /\ prepared = NoPrepare
    /\ drawn = NoDraw
    /\ disposed = 0
    /\ event = "none"

\* WindowEvent::CloseRequested => *control_flow = ControlFlow::Exit
\* (main.rs:519, cones.rs:96)
CloseRequested ==
    /\ event # "LoopDestroyed"
    /\ event' = "CloseRequested"
    /\ ExitCheck("Exit")
    /\ UNCHANGED <<pipeline_kind, frames, self_align, buffer_size, sets, objects,
                   frame, runs, prepared, drawn>>
    /\ UNCHANGED <<hal_vars, neg_vars, pipe_vars, loop_vars>>

\* WindowEvent::KeyboardInput: prints the input and the camera (main.rs:520-535)
\* or sets the inputs of the camera (cones.rs:100-120)
KeyboardInput ==
    /\ event # "LoopDestroyed"
    /\ event' = "KeyboardInput"
    /\ ExitCheck("Poll")
    /\ UNCHANGED <<pipeline_kind, frames, self_align, buffer_size, sets, objects,
                   frame, runs, prepared, drawn>>
    /\ UNCHANGED <<hal_vars, neg_vars, pipe_vars, loop_vars>>

\* Event::MainEventsCleared: graph.run prepares and draws one frame slot;
\* main.rs:538-553 then pushes one object while there is room,
\* cones.rs:123-137 then sets frame back to 0
MainEventsCleared ==
    /\ event # "LoopDestroyed"
    /\ runs < MaxCalls
    /\ event' = "MainEventsCleared"
    /\ RunGraph
    /\ IF pipeline_kind = "voxel"
       THEN /\ frame' = frame + (runs' - runs)
            /\ objects' = IF HasRoom(objects) THEN Append(objects, "identity")
                                              ELSE objects
       ELSE /\ frame' = 0
            /\ UNCHANGED objects
    /\ ExitCheck("Poll")
    /\ UNCHANGED <<pipeline_kind, frames, self_align, buffer_size, sets>>
    /\ UNCHANGED <<hal_vars, neg_vars, pipe_vars, loop_vars>>

\* Event::RedrawRequested: cones.rs:139-146 runs the graph, main.rs:554 has
\* no arm for it
RedrawRequested ==
    /\ event # "LoopDestroyed"
    /\ runs < MaxCalls
    /\ event' = "RedrawRequested"
    /\ IF pipeline_kind = "mesh"
       THEN /\ RunGraph
            /\ frame' = frame + (runs' - runs)
       ELSE UNCHANGED <<prepared, drawn, runs, frame>>
    /\ ExitCheck("Poll")
    /\ UNCHANGED <<pipeline_kind, frames, self_align, buffer_size, sets, objects>>
    /\ UNCHANGED <<hal_vars, neg_vars, pipe_vars, loop_vars>>

\* Event::LoopDestroyed, the last call of the closure: `_ => {}`
\* (main.rs:554, cones.rs:147)
LoopDestroyed ==
    /\ control_flow = "Exit"
    /\ event # "LoopDestroyed"
    /\ event' = "LoopDestroyed"
    /\ ExitCheck("Poll")
    /\ UNCHANGED <<pipeline_kind, frames, self_align, buffer_size, sets, objects,
                   frame, runs, prepared, drawn>>
    /\ UNCHANGED <<hal_vars, neg_vars, pipe_vars, loop_vars>>

RendyNext ==
    \/ CloseRequested
    \/ KeyboardInput
    \/ MainEventsCleared
    \/ RedrawRequested
    \/ LoopDestroyed

SpecRendy == RendyInit /\ [][RendyNext]_vars

(***************************************************************************)
(* The render loop of the triangle example                                 *)
(* (examples/triangle/main.rs:144-189).  The frames of the loop are the    *)
(* steps of draw_triangle_frame above.  main itself never calls            *)
(* set_buffer_bundle, so every frame of the example as written fails at    *)
(* the upload step; the loop is modelled for an application that may bind  *)
(* its vertex buffer between two frames.                                   *)
(***************************************************************************)

\* do_the_render (132-142) hands on what draw_triangle_frame returned; its
\* own Ok carries no value
do_the_render(res) == IF res \in {"ok", "suboptimal"} THEN "ok" ELSE res

\* if let Err(e) = do_the_render(..) (179)
IsErrNever(res) == FALSE

IsErr(res) == do_the_render(res) = "err"

\* the fields of GenericHalState in declaration order (hal_state.rs:62-82)
FieldsInOrder ==
    <<"current_frame", "frames_in_flight", "in_flight_fences",
      "render_finished_semaphores", "image_available_semaphores",
      "command_buffers", "command_pool", "framebuffers", "image_views",
      "render_pass", "render_area", "queue_group", "swapchain", "device",
      "vertices", "pipeline", "_adapter", "_surface", "_instance">>

\* the fields wrapped in ManuallyDrop
ManuallyDropFields ==
    {"command_pool", "render_pass", "swapchain", "device", "pipeline", "_instance"}

\* drop(hal_state): GenericHalState has no impl Drop, so the fields are
\* dropped in declaration order and a ManuallyDrop field is not dropped
DropGlue == SelectSeq(FieldsInOrder, LAMBDA f : f \notin ManuallyDropFields)

\* inputs.end_requested is false: do_the_render(&mut hal_state, ..) (174-179)
LoopFrame ==
    /\ loop_state = "running"
    /\ ~IsErr(result)
    /\ Call

\* the application binds a vertex buffer between two frames
LoopBind ==
    /\ loop_state = "running"
    /\ ~IsErr(result)
    /\ SetBufferBundle

\* drop(hal_state); hal_state = match HalState::new(..) { Ok(state) => state,
\* Err(e) => panic!(e) } (179-187)
Rebuild ==
    /\ loop_state = "running"
    /\ pc = "idle"
    /\ IsErr(result)
    /\ released' = DropGlue
    /\ \/ /\ loop_state' = "aborted"
          /\ UNCHANGED <<generation, hal_vars>>
       \/ \E f \in 1..MaxFrames, n \in 1..MaxImages :
             /\ UNCHANGED loop_state
             /\ generation' = generation + 1
             /\ frames_in_flight' = f
             /\ swapchain_images' = n
             /\ in_flight_fences' = CreateFences(f)
             /\ render_finished_semaphores' = CreateSemaphores(f)
             /\ image_available_semaphores' = CreateSemaphores(f)
             /\ image_views' = CreateImageViews(n)
             /\ framebuffers' = CreateFramebuffers(CreateImageViews(n))
             /\ command_buffers' =
                    AcquireCommandBuffers(CreateFramebuffers(CreateImageViews(n)))
             /\ current_frame' = 0
             /\ vertices' = 0
             /\ render_area' \in {"extent", "extent after a resize"}
             /\ pipeline' = generation + 1
             /\ acquired' = {}
             /\ pending' = {}
             /\ pc' = "idle"
             /\ image_available' = NoSem
             /\ render_finished' = NoSem
             /\ i_usize' = None
             /\ flight_fence' = None
             /\ steps' = <<>>
             /\ failed' = "none"
             /\ log' = NoLog
             /\ races' = {}
             /\ rerecorded' = FALSE
             /\ result' = "none"
             /\ UNCHANGED <<bundles, calls>>
    /\ UNCHANGED <<neg_vars, pipe_vars, rendy_vars>>

\* if inputs.end_requested { break; } (175-177): main returns and hal_state
\* is dropped
LoopExit ==
    /\ loop_state = "running"
    /\ pc = "idle"
    /\ ~IsErr(result)
    /\ loop_state' = "exited"
    /\ released' = DropGlue
    /\ UNCHANGED generation
    /\ UNCHANGED <<hal_vars, neg_vars, pipe_vars, rendy_vars>>

LoopNext ==
    \/ LoopFrame
    \/ LoopBind
    \/ Acquire
    \/ BorrowFence
    \/ WaitFence
    \/ ResetFence
    \/ Upload
    \/ Record
    \/ Submit
    \/ Present
    \/ GpuComplete
    \/ Rebuild
    \/ LoopExit

SpecLoop == Init /\ [][LoopNext]_vars


(***************************************************************************)
(* Properties                                                              *)
(***************************************************************************)

\* C1: the number of frames that are submitted but whose fence has not yet
\* signaled never exceeds frames_in_flight, whatever the calls made and the
\* order in which the GPU completes the submissions.
C1_InFlightBounded == Cardinality(pending) <= frames_in_flight

\* frames_in_flight >= 2 frames are in flight at once
C1_Witness == frames_in_flight >= 2 /\ Cardinality(pending) = frames_in_flight

\* C2: the CPU write of a frame's data never targets memory that a submitted
\* and not yet completed command buffer still reads, for every
\* frames_in_flight >= 1 and every order of acquired image indices.
C2_UploadNeverRaces == races = {}

\* C3: buffer.begin never re-records a command buffer of which a previous
\* submission is still pending on the GPU: once the fence of the call has
\* been waited on, no queued submission uses the command buffer of the
\* acquired image.
C3_NoRerecordWhilePending ==
    /\ ~rerecorded
    /\ pc \in {"reset", "upload", "record"} =>
          \A s \in pending : s.cb # i_usize

\* a command buffer that was recorded and submitted before is about to be
\* recorded again
C3_Witness == pc = "record" /\ At(command_buffers, i_usize) = "executable"

StepOrder == <<"acquire", "wait", "reset", "upload", "record", "submit", "present">>

IsPrefix(s, t) == Len(s) <= Len(t) /\ s = SubSeq(t, 1, Len(s))

\* C4: within every call the steps occur in the order acquire, fence wait,
\* fence reset, upload, recording, submit, present, and the step that fails
\* is the last step of its call: the call has returned.
C4_StepsInOrder ==
    /\ IsPrefix(steps, StepOrder)
    /\ failed # "none" =>
          /\ pc = "idle"
          /\ steps # <<>>
          /\ steps[Len(steps)] = failed

\* a call failed at the upload, after its acquire, wait and reset
C4_Witness == failed = "upload" /\ steps = SubSeq(StepOrder, 1, 4)

\* C5: the submission of a call waits on the image-available semaphore handed
\* to the acquire of that call, signals the render-finished semaphore of the
\* same slot and the fence the call waited on and reset; the present of the
\* call waits on that render-finished semaphore and presents the image the
\* acquire returned.
C5_HandlesOfOneFrame ==
    /\ log.sub_wait # NoSem =>
          /\ log.sub_wait = log.acq_sem
          /\ log.sub_wait[1] = "image_available"
          /\ log.sub_signal = Sem("render_finished", log.acq_sem[2])
          /\ log.sub_fence = log.wait_fence
          /\ log.sub_fence = log.reset_fence
          /\ log.sub_cb = log.acq_img
    /\ log.pres_wait # NoSem =>
          /\ log.pres_wait = log.sub_signal
          /\ log.pres_img = log.acq_img

\* a successful call whose image index differs from its slot
C5_Witness ==
    /\ pc = "idle"
    /\ result = "ok"
    /\ log.pres_img # None
    /\ log.acq_img # log.acq_sem[2]

\* C6: the fences are created signaled, so none of the first frames_in_flight
\* frames blocks at its fence wait.
C6_FirstFramesDoNotBlock ==
    (pc = "wait" /\ calls <= frames_in_flight) => FenceReady(flight_fence)

\* C7: the slot of the n-th call (from 0, failed calls included) is
\* n mod frames_in_flight: current_frame stays in 0..frames_in_flight - 1 and
\* has advanced by one, modulo frames_in_flight, for every call begun.
C7_SlotIsCallModFrames ==
    /\ current_frame \in 0..(frames_in_flight - 1)
    /\ current_frame = calls % frames_in_flight
    /\ pc \notin {"idle", "panicked"} =>
          /\ image_available = Sem("image_available", (calls - 1) % frames_in_flight)
          /\ render_finished = Sem("render_finished", (calls - 1) % frames_in_flight)

\* the counter has wrapped around and the last call failed
C7_Witness ==
    /\ frames_in_flight = 2
    /\ calls = 3
    /\ current_frame = 1
    /\ result = "err"

\* C8: there are frames_in_flight fences, image-available semaphores and
\* render-finished semaphores, and as many image views, framebuffers and
\* command buffers as swapchain images, after init and after every operation.
C8_ResourceCounts ==
    /\ Len(in_flight_fences) = frames_in_flight
    /\ Len(image_available_semaphores) = frames_in_flight
    /\ Len(render_finished_semaphores) = frames_in_flight
    /\ Len(image_views) = swapchain_images
    /\ Len(framebuffers) = swapchain_images
    /\ Len(command_buffers) = swapchain_images

\* frames have been drawn on a state whose two counts differ
C8_Witness ==
    /\ frames_in_flight # swapchain_images
    /\ calls >= 2
    /\ result = "ok"
    /\ pending # {}

\* the position of the first element of seq that is in set (0 if none)
FirstIn(seq, set) ==
    IF \E i \in 1..Len(seq) : seq[i] \in set
    THEN CHOOSE i \in 1..Len(seq) :
            /\ seq[i] \in set
            /\ \A j \in 1..(i - 1) : seq[j] \notin set
    ELSE 0

\* C9: get_present_mode and get_composite_alpha return the first element of
\* the preference list that the surface advertises, and fail exactly when the
\* preference list and the advertised set have no common element.
C9_FirstPreferredAdvertised ==
    (neg_fn \in {"get_present_mode", "get_composite_alpha"} /\ neg_out # Pending) =>
        /\ neg_out.tag = "err" <=> (\A i \in 1..Len(neg_pref) : neg_pref[i] \notin neg_adv)
        /\ neg_out.tag = "ok" => neg_out.val = neg_pref[FirstIn(neg_pref, neg_adv)]
        /\ (neg_adv = {"Fifo", "Mailbox"} /\ neg_pref = <<"Mailbox", "Fifo">>)
              => neg_out = Ok("Mailbox")
        /\ (neg_adv = {"Fifo"} /\ neg_pref = <<"Relaxed", "Fifo">>)
              => neg_out = Ok("Fifo")

\* the second preference is chosen because the first is not advertised
C9_Witness ==
    /\ neg_fn = "get_present_mode"
    /\ neg_adv = {"Fifo"}
    /\ neg_pref = <<"Relaxed", "Fifo">>
    /\ neg_out = Ok("Fifo")

\* C10: get_image_count is min(max - 1, max(min, 3)) for Mailbox and
\* min(max - 1, max(min, 2)) for every other present mode.
C10_ImageCountPolicy ==
    (neg_fn = "get_image_count" /\ neg_out # Pending) =>
        LET lo == neg_caps[1]
            hi == neg_caps[2]
            want == IF neg_mode = "Mailbox" THEN 3 ELSE 2
            floor == IF lo >= want THEN lo ELSE want
        IN  /\ neg_out.tag = "ok"
            /\ neg_out.val = (IF hi - 1 <= floor THEN hi - 1 ELSE floor)
            /\ (neg_caps = <<2, 4>> /\ neg_mode = "Mailbox") => neg_out.val = 3
            /\ (neg_caps = <<2, 4>> /\ neg_mode = "Fifo") => neg_out.val = 2
            /\ (neg_caps = <<2, 3>> /\ neg_mode = "Fifo") => neg_out.val = 2

\* range [2,4] with Mailbox gives 3
C10_Witness ==
    /\ neg_fn = "get_image_count"
    /\ neg_caps = <<2, 4>>
    /\ neg_mode = "Mailbox"
    /\ neg_out = Ok(3)

(***************************************************************************)
(* get_format, get_extent, pick_adapter, init, frame layout                *)
(***************************************************************************)
IsSrgb(format) == format \in {"Rgba8Srgb", "Bgra8Srgb"}

\* the format the claim names for a non-empty advertised list
PreferredOf(formats) ==
    IF \E i \in 1..Len(formats) : IsSrgb(formats[i])
    THEN formats[CHOOSE i \in 1..Len(formats) :
                    /\ IsSrgb(formats[i])
                    /\ \A j \in 1..(i - 1) : ~IsSrgb(formats[j])]
    ELSE formats[1]

\* what the surface advertises: a missing list advertises nothing
AdvertisedFormats == IF neg_arg.some THEN neg_arg.val ELSE <<>>

\* C11 as stated: get_format returns the first advertised sRGB format if
\* there is one, else the first advertised format, and fails with an error
\* whenever the surface advertises no format at all.
C11_GetFormat ==
    (neg_fn = "get_format" /\ neg_out # Pending) =>
        IF AdvertisedFormats = <<>>
        THEN neg_out.tag = "err"
        ELSE neg_out = Ok(PreferredOf(AdvertisedFormats))

\* C11 amended: get_format returns the first advertised sRGB format if there
\* is one, else the first advertised format; it fails with an error when the
\* surface reports a format list that is empty, and returns Rgba8Srgb
\* without an error when the surface reports no format list.
C11_GetFormatListPresent ==
    (neg_fn = "get_format" /\ neg_out # Pending) =>
        IF ~neg_arg.some THEN neg_out = Ok("Rgba8Srgb")
        ELSE IF neg_arg.val = <<>>
        THEN neg_out = Err("Available format list was empty!")
        ELSE neg_out = Ok(PreferredOf(neg_arg.val))

C11_Witness ==
    /\ neg_fn = "get_format"
    /\ neg_arg = Some(<<"Bgra8Unorm", "Bgra8Srgb">>)
    /\ neg_out = Ok("Bgra8Srgb")

\* floor(logical * hidpi), the factor being given in halves, is n
IsClientArea(n, logical, hidpi) ==
    /\ 2 * n <= logical * hidpi
    /\ logical * hidpi < 2 * (n + 1)

\* x is the smaller of a and the client area of `logical`
IsMinWithClientArea(x, a, logical, hidpi) ==
    \E n \in 0..(2 * logical) :
        /\ IsClientArea(n, logical, hidpi)
        /\ x <= a /\ x <= n /\ x \in {a, n}

\* C12: get_extent returns, independently per axis, the minimum of the
\* surface capability maximum extent and the window client area; a window
\* of 800x600 inside the capability range yields 800x600.
C12_GetExtent ==
    (neg_fn = "get_extent" /\ neg_out # Pending /\ neg_arg.window.some) =>
        /\ neg_out.tag = "ok"
        /\ IsMinWithClientArea(neg_out.val[1], neg_arg.caps_end[1],
                               neg_arg.window.val[1], neg_arg.hidpi)
        /\ IsMinWithClientArea(neg_out.val[2], neg_arg.caps_end[2],
                               neg_arg.window.val[2], neg_arg.hidpi)
        /\ (/\ neg_arg.window.val = <<800, 600>>
            /\ neg_arg.hidpi = 2
            /\ neg_arg.caps_end[1] >= 800
            /\ neg_arg.caps_end[2] >= 600) => neg_out.val = <<800, 600>>

C12_Witness ==
    /\ neg_fn = "get_extent"
    /\ neg_arg.window = Some(<<800, 600>>)
    /\ neg_arg.hidpi = 2
    /\ neg_arg.caps_end = <<800, 600>>
    /\ neg_out = Ok(<<800, 600>>)

\* the adapter has a queue family that supports graphics and that the
\* surface accepts
Suitable(adapter) ==
    \E k \in 1..Len(adapter) : adapter[k].graphics /\ adapter[k].supported

C20_FrameLayout ==
    (neg_fn = "frame_layout" /\ neg_out # Pending) =>
        LET total == UNIFORM_SIZE + MODELS_SIZE + INDIRECT_SIZE
            l == neg_out.val
        IN  /\ l.stride % neg_arg.align = 0
            /\ l.stride >= total
            /\ l.stride - neg_arg.align < total
            /\ l.uniform = neg_arg.index * l.stride
            /\ l.models = l.uniform + UNIFORM_SIZE
            /\ l.indirect = l.models + MODELS_SIZE
            /\ l.uniform + UNIFORM_SIZE <= l.models
            /\ l.models + MODELS_SIZE <= l.indirect
            /\ l.next_uniform >= l.indirect + INDIRECT_SIZE

\* an alignment that divides the total and one that does not
C20_Witness ==
    /\ neg_fn = "frame_layout"
    /\ neg_out # Pending
    /\ neg_arg.index = 2
    /\ neg_arg.align = 4
    /\ neg_out.val.stride = 1252
    /\ neg_out.val.indirect = 2 * 1252 + 1168 + 64

(***************************************************************************)
(* PipelineBuilder                                                         *)
(***************************************************************************)
\* the pieces and shader kinds supplied by the calls that returned the builder
SuppliedPieces ==
    {c.piece : c \in {x \in supplied : "piece" \in DOMAIN x}}
    \cup {c.shader_type : c \in {x \in supplied : "shader_type" \in DOMAIN x}}

RequiredPieces ==
    {"Vertex", "InputAssemblerDesc", "Rasterizer", "DepthStencilDesc", "BlendDesc",
     "BakedStates"}

MissingPieces == RequiredPieces \ SuppliedPieces

\* the error that names a required piece
MissingMessage(piece) ==
    IF piece = "Vertex" THEN "No vertex shader found."
    ELSE IF piece = "Rasterizer" THEN "No rasterizer specified."
    ELSE IF piece = "InputAssemblerDesc" THEN "No input assembler desc specified."
    ELSE IF piece = "BlendDesc" THEN "No blender desc specified."
    ELSE IF piece = "DepthStencilDesc" THEN "No depth stencil specified."
    ELSE "No states specified."

\* C15: build fails whenever a required piece (vertex shader entry, input
\* assembler, rasterizer, depth/stencil, blend, baked states) was never
\* supplied, with an error that names a missing piece when the device calls
\* succeed; it succeeds when all required pieces were supplied and the
\* device calls succeed; a builder missing only the rasterizer fails with
\* the rasterizer error.
C15_BuildNeedsEveryPiece ==
    builder_state = "consumed" =>
        /\ MissingPieces # {} => pipe_out.tag = "err"
        /\ (MissingPieces # {} /\ failing = "none") =>
              \E piece \in MissingPieces : pipe_out = Err(MissingMessage(piece))
        /\ (MissingPieces = {} /\ failing = "none") => pipe_out.tag = "ok"
        /\ (MissingPieces = {"Rasterizer"} /\ failing = "none") =>
              pipe_out = Err("No rasterizer specified.")

C15_Witness ==
    /\ builder_state = "consumed"
    /\ MissingPieces = {"Rasterizer"}
    /\ failing = "none"
    /\ pipe_out = Err("No rasterizer specified.")

\* one fixed order of all the calls a run can make
CallOrder ==
    <<[piece |-> "AttributeDesc", data |-> "XY"],
      [piece |-> "AttributeDesc", data |-> "RGB"],
      [piece |-> "DescriptorSetLayoutBinding", data |-> "given"],
      [piece |-> "VertexBufferDesc", data |-> "given"],
      [piece |-> "InputAssemblerDesc", data |-> "given"],
      [piece |-> "PipelineCreationFlags", data |-> "given"],
      [piece |-> "Rasterizer", data |-> "Fill"],
      [piece |-> "Rasterizer", data |-> "Line"],
      [piece |-> "DepthStencilDesc", data |-> "given"],
      [piece |-> "BlendDesc", data |-> "given"],
      [piece |-> "BakedStates", data |-> "given"],
      [shader_type |-> "Vertex", source |-> "VERTEX_SOURCE"],
      [shader_type |-> "Vertex", source |-> "OTHER_SOURCE"],
      [shader_type |-> "Fragment", source |-> "FRAGMENT_SOURCE"]>>

\* the builder after one more call that succeeds
Apply(b, call) ==
    IF "piece" \in DOMAIN call THEN With(b, call)
    ELSE LET env == [compiles |-> TRUE, creates |-> TRUE,
                     handle |-> Len(b.shader_entries)]
         IN  IF call.shader_type = "Vertex"
             THEN with_vertex(b, call.source, env).val
             ELSE with_fragment(b, call.source, env).val

\* the builder after the supplied calls made in the order of CallOrder
RECURSIVE InCallOrder(_, _)
InCallOrder(b, k) ==
    IF k > Len(CallOrder) THEN b
    ELSE IF CallOrder[k] \in supplied THEN InCallOrder(Apply(b, CallOrder[k]), k + 1)
    ELSE InCallOrder(b, k + 1)

\* C16 as stated: build yields the same outcome for any two sequences of
\* calls that are permutations of each other; so the outcome of the calls
\* made is the outcome of the same calls made in one fixed order.
C16_OrderIndependent ==
    builder_state = "consumed" =>
        pipe_out = build(InCallOrder(NewBuilder, 1), failing)

\* no single-valued piece and no shader kind was supplied twice
EachOnce ==
    \A c, d \in supplied :
        \/ c = d
        \/ ("piece" \in DOMAIN c) # ("piece" \in DOMAIN d)
        \/ /\ "piece" \in DOMAIN c /\ "piece" \in DOMAIN d
           /\ \/ c.piece # d.piece
              \/ c.piece \in {"AttributeDesc", "DescriptorSetLayoutBinding",
                              "VertexBufferDesc"}
        \/ /\ "shader_type" \in DOMAIN c /\ "shader_type" \in DOMAIN d
           /\ c.shader_type # d.shader_type

Range(seq) == {seq[k] : k \in 1..Len(seq)}

\* the same outcome, the lists of a description compared as collections
SameUpToListOrder(a, b) ==
    /\ a.tag = b.tag
    /\ a.tag = "err" => a = b
    /\ a.tag = "ok" =>
          /\ [a.val EXCEPT !.attributes = <<>>, !.vertex_buffers = <<>>,
                           !.descriptor_set_layout = <<>>]
             = [b.val EXCEPT !.attributes = <<>>, !.vertex_buffers = <<>>,
                             !.descriptor_set_layout = <<>>]
          /\ Range(a.val.attributes) = Range(b.val.attributes)
          /\ Len(a.val.attributes) = Len(b.val.attributes)
          /\ Range(a.val.vertex_buffers) = Range(b.val.vertex_buffers)
          /\ Range(a.val.descriptor_set_layout) = Range(b.val.descriptor_set_layout)

\* C16 amended: for two sequences of calls that are permutations of each
\* other and supply every single-valued piece (input assembler, flags,
\* rasterizer, depth/stencil, blend, baked states) and every shader kind at
\* most once, build yields the same success or error and the same pipeline
\* description up to the order of its attribute, vertex buffer and
\* descriptor binding lists.
C16_OrderIndependentEachOnce ==
    (builder_state = "consumed" /\ EachOnce) =>
        SameUpToListOrder(pipe_out, build(InCallOrder(NewBuilder, 1), failing))

\* a build that succeeds after the fragment shader was supplied before the
\* vertex shader and the baked states before the rasterizer
C16_Witness ==
    /\ builder_state = "consumed"
    /\ EachOnce
    /\ pipe_out.tag = "ok"
    /\ Len(builder.shader_entries) = 2
    /\ builder.shader_entries[1].shader_type = "Fragment"
    /\ builder.attributes_desc = <<"RGB", "XY">>

\* C17 as stated: every shader module created by with_vertex /
\* with_fragment is destroyed on every exit path; none is alive once the
\* builder is gone.
C17_ShaderModulesDestroyed ==
    builder_state \in {"consumed", "dropped"} => shader_modules = {}

\* C18: a shader that fails to compile makes with_vertex / with_fragment
\* return an error; the builder is gone, so no pipeline is ever built from
\* it, init returns the error, and no placeholder entry was added.
C18_CompileFailureAborts ==
    compile_failed =>
        /\ builder_state = "dropped"
        /\ pipe_out \in {Err("Couldn't compile vertex shader!"),
                         Err("Couldn't compile fragment shader!")}
        /\ init_result = pipe_out
        /\ Len(builder.shader_entries) = modules_created
        /\ \A k \in 1..Len(builder.shader_entries) :
              \E c \in {x \in supplied : "shader_type" \in DOMAIN x} :
                  /\ c.source = builder.shader_entries[k].shader_module.code
                  /\ c.shader_type = builder.shader_entries[k].shader_type

C18_Witness ==
    /\ compile_failed
    /\ modules_created = 1
    /\ builder.shader_entries[1].shader_type = "Vertex"
    /\ pipe_out = Err("Couldn't compile fragment shader!")
    /\ init_result.tag = "err"

\* C19: a built pipeline has a vertex stage, and a fragment stage exactly
\* when a fragment shader entry was supplied; build fails when no vertex
\* shader was supplied and succeeds with fragment = none when only a vertex
\* shader was supplied.
C19_ShaderStages ==
    builder_state = "consumed" =>
        /\ pipe_out.tag = "ok" =>
              /\ "Vertex" \in SuppliedPieces
              /\ [shader_type |-> "Vertex", source |-> pipe_out.val.shaders.vertex.module]
                    \in supplied
              /\ pipe_out.val.shaders.fragment.some <=> "Fragment" \in SuppliedPieces
              /\ pipe_out.val.shaders.fragment.some =>
                    [shader_type |-> "Fragment",
                     source |-> pipe_out.val.shaders.fragment.val.module] \in supplied
        /\ "Vertex" \notin SuppliedPieces => pipe_out.tag = "err"
        /\ ("Vertex" \notin SuppliedPieces /\ failing = "none") =>
              pipe_out = Err("No vertex shader found.")
        /\ (MissingPieces = {} /\ "Fragment" \notin SuppliedPieces /\ failing = "none") =>
              /\ pipe_out.tag = "ok"
              /\ ~pipe_out.val.shaders.fragment.some

C19_Witness ==
    /\ builder_state = "consumed"
    /\ pipe_out.tag = "ok"
    /\ "Fragment" \notin SuppliedPieces
    /\ ~pipe_out.val.shaders.fragment.some

(***************************************************************************)
(* The rendy pipelines and the event loop of main.rs                       *)
(***************************************************************************)

\* C21: the build creates exactly frames_in_flight descriptor sets, and the
\* buffer range bound to set i is exactly the uniform region that
\* prepare(index = i) writes, for the voxel pipeline and for the mesh pipeline.
C21_SetsMatchUniformRegions ==
    /\ Len(sets) = frames
    /\ prepared.index # None => At(sets, prepared.index) = prepared.uniform

\* C22: in the event loop of main.rs scene.objects never holds more than
\* MAX_OBJECTS objects, so the instances a prepare uploads fit inside the
\* MODELS_SIZE region of the slot and the instance_count of the indirect draw
\* command never exceeds MAX_OBJECTS.
C22_ObjectsBounded ==
    /\ Len(objects) <= MAX_OBJECTS
    /\ (pipeline_kind = "voxel" /\ prepared.index # None) =>
          /\ prepared.instance_count <= MAX_OBJECTS
          /\ prepared.models # NoRange =>
                /\ prepared.models.start = models_offset(prepared.index, self_align)
                /\ prepared.models.end <= prepared.models.start + MODELS_SIZE
                /\ prepared.models.end <= prepared.indirect.start

\* a prepare of the voxel pipeline uploaded a full instance array
C22_Witness ==
    /\ pipeline_kind = "voxel"
    /\ Len(objects) = MAX_OBJECTS
    /\ prepared.models # NoRange
    /\ prepared.instance_count = MAX_OBJECTS

(***************************************************************************)
(* The render loop of the triangle example                                 *)
(***************************************************************************)

\* the HalState at hand returned an error from its last frame
Errored == result = "err"

\* C23: in the triangle render loop draw_triangle_frame is never called on a
\* HalState that has returned an error, and the error of a HalState is only
\* left behind by dropping that HalState and constructing a new one.
C23_RebuildBeforeNextFrame ==
    [][/\ calls' = calls + 1 => ~Errored
       /\ (Errored /\ ~Errored') =>
             /\ released' = DropGlue
             /\ generation' = generation + 1]_vars

\* a frame runs on a HalState that replaced an errored one
C23_Witness ==
    /\ generation >= 2
    /\ pc \notin {"idle", "panicked"}
    /\ released = DropGlue

\* C24: a rebuild after a frame error leaves the frame counter where it was.
C24_CounterUnaffected ==
    [][generation' = generation + 1 => current_frame' = current_frame]_vars

\* C25: a present that reports the swapchain as suboptimal makes the frame
\* fail, so that no further frame starts on that HalState before the caller
\* has rebuilt it.
C25_SuboptimalRebuilds ==
    [][calls' = calls + 1 => result # "suboptimal"]_vars

\* C26: the loop is left only between two frames, and a frame that has
\* started never stops part-way without returning an error.
C26_FramesRunToTheEnd ==
    /\ loop_state = "exited" => pc = "idle"
    /\ pc # "panicked"

\* the order in which a teardown has to release the resources of a HalState
TeardownOrder ==
    <<"command_buffers", "command_pool", "framebuffers", "image_views",
      "render_pass", "swapchain", "device", "_surface", "_instance">>

\* C27: once a HalState has been torn down, for recovery or at loop exit, its
\* command buffers, command pool, framebuffers, image views, render pass,
\* swapchain, device, surface and instance have all been released, in that
\* order, before a replacement exists.
C27_TeardownInOrder ==
    (generation > 1 \/ loop_state # "running") =>
        SelectSeq(released, LAMBDA f : f \in Range(TeardownOrder)) = TeardownOrder

(***************************************************************************)
(* draw_triangle_frame: blocking, missing vertex buffer, configuration     *)
(***************************************************************************)

\* the swapchain images the application does not hold
FreeImages == (0..(swapchain_images - 1)) \ acquired

\* C28: the fence wait is the only step at which the CPU thread can block:
\* whenever the thread is at the acquire step an image is free, so that
\* acquire_image returns without waiting for the presentation engine.
C28_AcquireNeverWaits == pc = "acquire" => FreeImages # {}

Configuration ==
    <<render_area, frames_in_flight, pipeline, swapchain_images,
      Len(in_flight_fences), Len(render_finished_semaphores),
      Len(image_available_semaphores), Len(framebuffers), Len(command_buffers),
      framebuffers, image_views>>

\* C30: no step of draw_triangle_frame, successful or failed, changes
\* render_area, frames_in_flight, the pipeline, the swapchain or the length
\* of the fence, semaphore, framebuffer and command-buffer vectors.
C30_ConfigurationFixed == [][Configuration' = Configuration]_vars

\* several calls were made, the last one succeeded, and a fence and a command
\* buffer are in use
C30_Witness ==
    /\ calls >= 2
    /\ result = "ok"
    /\ current_frame # 0
    /\ \E k \in 1..Len(command_buffers) : command_buffers[k] = "executable"
    /\ \E k \in 1..Len(in_flight_fences) : ~in_flight_fences[k]

(***************************************************************************)
(* Sizes and bounds of the rendy pipelines                                 *)
(***************************************************************************)

\* the lights of the scene held by the lights array of a uniform record
LightsHeld(u) == Cardinality({k \in 1..Len(u.lights) : u.lights[k] = "light"})

\* C31: the uniform record uploaded by prepare never declares more lights
\* than it holds: lights_count is the number of lights copied into the lights
\* array and is at most MAX_LIGHTS, for every length of scene.lights.
C31_LightsCountHeld ==
    (neg_fn = "uniform_args" /\ neg_out # Pending) =>
        /\ neg_out.val.lights_count = LightsHeld(neg_out.val)
        /\ neg_out.val.lights_count <= MAX_LIGHTS

\* the byte ranges the last graph.run wrote, bound and read
RangesUsed ==
    ({prepared.uniform, prepared.indirect, prepared.models,
      drawn.uniform, drawn.models, drawn.indirect}) \ {NoRange}

\* C32: every byte range that prepare writes and that draw binds or reads,
\* for any frame index below frames_in_flight, lies inside the buffer that
\* build allocated, for the voxel pipeline and for the mesh pipeline.
C32_RangesInsideBuffer ==
    \A r \in RangesUsed : 0 <= r.start /\ r.start <= r.end /\ r.end <= buffer_size

\* C38: in the rendy event loops the graph is disposed exactly once, when a
\* close request sets the control flow to Exit, and graph.run is never called
\* once the graph has been disposed, whatever events arrive afterwards.
C38_DisposedOnce ==
    /\ [](/\ disposed <= 1
          /\ control_flow = "Exit" <=> disposed = 1
          /\ disposed = 1 <=> graph = "None")
    /\ [][runs' # runs => disposed = 0 /\ disposed' = 0]_vars

\* frames were run, the close request came, and a frame event arrived after it
C38_Witness ==
    /\ disposed = 1
    /\ runs > 0
    /\ event \in {"MainEventsCleared", "RedrawRequested"}

(***************************************************************************)
(* draw_triangle_frame: indices, fences and semaphores across calls        *)
(***************************************************************************)

\* C33: every image index that acquire_image returns is a valid index into
\* in_flight_fences, command_buffers and framebuffers, for every swapchain
\* image count and every frames_in_flight value.
C33_ImageIndexInBounds ==
    i_usize # None =>
        /\ InBounds(in_flight_fences, i_usize)
        /\ InBounds(command_buffers, i_usize)
        /\ InBounds(framebuffers, i_usize)

\* fence k is signaled or a queued submission will signal it
WillBeSignaled(k) == At(in_flight_fences, k) \/ \E s \in pending : s.fence = k

\* C34: whenever draw_triangle_frame has returned, with success or with an
\* error of any step, every fence is signaled or has a pending submission
\* that will signal it.
C34_NoFenceLeftReset ==
    pc = "idle" => \A k \in 0..(Len(in_flight_fences) - 1) : WillBeSignaled(k)

\* semaphore sem carries a signal that no queued submission waits on
UnconsumedSignal(sem) ==
    /\ At(image_available_semaphores, sem[2])
    /\ ~\E s \in pending : s.wait = sem

\* C35: acquire_image is never called with an image-available semaphore that
\* still carries the signal of an earlier acquire that no submission has
\* waited on.
C35_AcquireSemaphoreUnsignaled ==
    pc = "acquire" => ~UnconsumedSignal(image_available)

\* C37: for every capability range with min <= max and every present mode
\* the value returned by get_image_count lies within [min, max].
C37_ImageCountInRange ==
    (neg_fn = "get_image_count" /\ neg_out # Pending) =>
        /\ neg_caps[1] <= neg_out.val
        /\ neg_out.val <= neg_caps[2]

\* ---------------------------------------------------------------------------
\* PipelineBuilder::build and the device objects it leaves behind
\* ---------------------------------------------------------------------------

DescriptorObjects ==
    {"descriptor_set_layout", "descriptor_pool", "descriptor_set", "pipeline_layout"}

\* C36: when build returns an error, no descriptor-set layout, descriptor
\* pool, descriptor set or pipeline layout created during that build remains
\* alive on the device.
C36_BuildErrorLeavesNothing ==
    (builder_state = "consumed" /\ pipe_out.tag = "err") =>
        device_objects \cap DescriptorObjects = {}

\* ---------------------------------------------------------------------------
\* draw_triangle_frame: every call returns
\* ---------------------------------------------------------------------------

ImageAvailable == (0..(swapchain_images - 1)) \ acquired # {}

SwapchainProvides == (pc = "acquire") ~> ImageAvailable

\* C39: if every submitted command buffer eventually completes and signals
\* its fence (the fairness of GpuComplete) and the swapchain eventually makes
\* an image available, every call of draw_triangle_frame eventually returns,
\* with success or an error, for any number of consecutive calls.
C39_EveryCallReturns == SwapchainProvides => ((pc # "idle") ~> (pc = "idle"))

====
